---- MODULE Spec2Model ----
(***************************************************************************)
(* A model of the query-serving pipeline of RAG_Finance: the sliding-window *)
(* rate limiter (rate_limiter.py), the Redis cache wrapper (cache.py), the  *)
(* Pinecone wrapper (vector_store.py), the provider client (llm.py), the    *)
(* metrics manager (metrics.py), the orchestrator (rag_pipeline.py), the    *)
(* ingestion path (document_processor.py) and the HTTP handlers (api.py).   *)
(*                                                                         *)
(* The service runs on one asyncio event loop per process: the code between *)
(* two awaits that really suspend runs atomically, so every action below is *)
(* one such segment of a handler.                                           *)
(*                                                                         *)
(* Strings the code inspects (company, question, cache key) are sequences   *)
(* of one-character strings.  Time is counted in ticks, TicksPerSecond to   *)
(* the second, so that int() truncation of a number of seconds is visible.  *)
(***************************************************************************)
EXTENDS Integers, Sequences, FiniteSets, TLC

VARIABLES
    now,              \* time.time(), in ticks
    max_requests,     \* RateLimiter.max_requests
    window_seconds,   \* RateLimiter.window_seconds
    requests,         \* RateLimiter.requests: api_key -> list of timestamps
    calls,            \* history: per api_key, the check_rate_limit calls made
    last_status,      \* what the last get_remaining_requests call returned
    redis,            \* RedisCache.redis: "none" or "pool"
    store,            \* the Redis backend: key -> [value, ttl]
    cache_stats,      \* RedisCache.cache_hits / cache_misses
    pinecone_index,   \* PineconeManager.index: "none" or "index"
    vectors,          \* the Pinecone index: the upserted (id, metadata)
    openai_client,    \* OpenAIClient.client: "none" or "client"
    concurrent_requests, \* MetricsManager.concurrent_requests (gauge)
    cache_size,       \* MetricsManager.cache_size (gauge)
    counters,         \* MetricsManager.total_queries / cache_hits / cache_misses
    rq,               \* the POST /query requests being served, per slot
    started,          \* number of /query requests received so far
    ingest,           \* the process_document call being served
    next_id,          \* number of document ids generated so far
    ingested,         \* history: document id -> company of the document
    last_query,       \* what the last direct vector_store.query call returned
    probe,            \* the latest applications of get_cache_key and of the
                      \* freshness classification, with their results
    time_ms,          \* time.time() as OpenAIClient reads it, in milliseconds
    last_request_time, \* OpenAIClient.last_request_time, in milliseconds
    loop,             \* the coroutine holding the event-loop thread in a
                      \* blocking call, 0 when the loop is free
    co,               \* the coroutines that call the provider
    co_started,       \* number of coroutines started so far
    provider_log,     \* history: the calls issued to the provider
    batch,            \* the batch_process_documents call being served
    query_latency,    \* the latency histogram: sum and count of the
                      \* observations (where the latencies are drawn)
    snapshot,         \* the get_metrics call being served, and its response
    context           \* the last _build_context call and its result

(***************************************************************************)
(* Bounds of the model.                                                    *)
(***************************************************************************)
TicksPerSecond == 2
MaxWindow == 1
MaxLimit == 2
MaxTime == 5
MaxCalls == 3
NumReq == 2
MaxQueries == 2
MaxDocs == 2
NumCo == 2
MaxCoStarts == 3
StartMs == 1000
PaceStepMs == 25
MaxElapsedMs == 100
MaxBatch == 3
MaxRecorded == 3
MaxMatches == 3

(***************************************************************************)
(* Strings, as sequences of characters.                                    *)
(***************************************************************************)
UpperCase == <<"A","B","C","D","E","F","G","H","I","J","K","L","M",
               "N","O","P","Q","R","S","T","U","V","W","X","Y","Z">>
LowerCase == <<"a","b","c","d","e","f","g","h","i","j","k","l","m",
               "n","o","p","q","r","s","t","u","v","w","x","y","z">>
Whitespace == {" ", "\t", "\n"}

\* ch.lower()
LowerChar(ch) ==
    IF \E i \in 1..Len(UpperCase) : UpperCase[i] = ch
    THEN LowerCase[CHOOSE i \in 1..Len(UpperCase) : UpperCase[i] = ch]
    ELSE ch

\* str.lower()
LowerStr(str) == [i \in 1..Len(str) |-> LowerChar(str[i])]

\* str.strip()
RECURSIVE LStrip(_)
LStrip(str) ==
    IF str # << >> /\ Head(str) \in Whitespace THEN LStrip(Tail(str)) ELSE str
RECURSIVE RStrip(_)
RStrip(str) ==
    IF str # << >> /\ str[Len(str)] \in Whitespace
    THEN RStrip(SubSeq(str, 1, Len(str) - 1))
    ELSE str
Strip(str) == RStrip(LStrip(str))

\* sub in str
Contains(str, sub) ==
    \E i \in 0..(Len(str) - Len(sub)) : SubSeq(str, i + 1, i + Len(sub)) = sub

(***************************************************************************)
(* The inputs the model draws from.                                        *)
(***************************************************************************)
Apple == <<"A","p","p","l","e">>
Tesla == <<"T","e","s","l","a">>
Companies == {Apple, Tesla}

\* the (company, question) pairs POST /query is given
Queries ==
    { <<Apple, <<"R","e","v","?">> >>, <<Tesla, <<"N","o","w","?">> >> }

\* the questions get_cache_key and _is_real_time_query are applied to:
\* "Rev?", " rev? ", "REV?\\n", "Re v?", "Current rev?", "current rev?",
\* " rev?", "LATEST rev?", "rev Today", "this Quarter", "I know", "past"
FnQuestions ==
    {
      <<"R","e","v","?">>,
      <<" ","r","e","v","?"," ">>,
      <<"R","E","V","?","\n">>,
      <<"R","e"," ","v","?">>,
      <<"C","u","r","r","e","n","t"," ","r","e","v","?">>,
      <<"c","u","r","r","e","n","t"," ","r","e","v","?">>,
      <<" ","r","e","v","?">>,
      <<"L","A","T","E","S","T"," ","r","e","v","?">>,
      <<"r","e","v"," ","T","o","d","a","y">>,
      <<"t","h","i","s"," ","Q","u","a","r","t","e","r">>,
      <<"I"," ","k","n","o","w">>,
      <<"p","a","s","t">> }

\* the questions get_cache_key is applied to
KeyQuestions ==
    {q \in FnQuestions :
        Len(q) <= 6 /\ LowerChar(q[1]) \in {"r", " ", "p"}}

GoodKeyA == <<"k","e","y","-","a","a","a","a">>
GoodKeyB == <<"k","e","y","-","b","b","b","b">>
\* the keys that pass validate_api_key
ApiKeys == {GoodKeyA, GoodKeyB}
\* the keys POST /query is given
QueryKeys == {GoodKeyA}

\* similarity scores, in hundredths
Scores == {65, 70, 90}
\* the scores the index gives while queries are served
ServeScores == {65, 90}
\* the texts the generation call returns
AnswerTexts == { << >>, <<"a">>, <<"b">> }
\* the texts it returns while queries are served
ServeTexts == { << >>, <<"a">> }

NoStatus == [remaining |-> -1, reset_seconds |-> -1]

(***************************************************************************)
(* rate_limiter.py                                                         *)
(***************************************************************************)

\* The window length in ticks.
WindowTicks == window_seconds * TicksPerSecond

\* The list stored for api_key, [] when the key was never seen.
StoredWindow(reqs, api_key) ==
    IF api_key \in DOMAIN reqs THEN reqs[api_key] ELSE << >>

\* Live with the comparison taken as >=: a timestamp exactly one window old
\* is kept.
LiveInclusive(t, current_time) == t >= current_time - WindowTicks

\* t > current_time - self.window_seconds
Live(t, current_time) == t > current_time - WindowTicks

\* [t for t in self.requests[api_key] if t > current_time - self.window_seconds]
Prune(window, current_time) ==
    SelectSeq(window, LAMBDA t : Live(t, current_time))

\* UnderLimit with the comparison taken as <=.
UnderLimitInclusive(window) == Len(window) <= max_requests

\* len(self.requests[api_key]) < self.max_requests
UnderLimit(window) == Len(window) < max_requests

\* What check_rate_limit(api_key) returns at current_time.
CheckResult(reqs, api_key, current_time) ==
    UnderLimit(Prune(StoredWindow(reqs, api_key), current_time))

\* WindowAfterCheck with every call recorded, admitted or not.
WindowAfterCheckAlwaysAppend(window, current_time) ==
    Append(Prune(window, current_time), current_time)

\* WindowAfterCheck without the append of an admitted call.
WindowAfterCheckNoAppend(window, current_time) == Prune(window, current_time)

\* WindowAfterCheck with a denied call taking the place of the oldest
\* timestamp of the window.
WindowAfterCheckRefreshOnDenial(window, current_time) ==
    IF UnderLimit(Prune(window, current_time))
    THEN Append(Prune(window, current_time), current_time)
    ELSE Append(Tail(Prune(window, current_time)), current_time)

\* The list check_rate_limit leaves for api_key: pruned, and with
\* current_time appended when the call is admitted.
WindowAfterCheck(window, current_time) ==
    IF UnderLimit(Prune(window, current_time))
    THEN Append(Prune(window, current_time), current_time)
    ELSE Prune(window, current_time)

\* RequestsAfterCheck with one window shared by all keys: the list
\* check_rate_limit leaves is stored for every known key.
RequestsAfterCheckShared(reqs, api_key, current_time) ==
    [k \in DOMAIN reqs \cup {api_key} |->
        WindowAfterCheck(StoredWindow(reqs, api_key), current_time)]

\* self.requests after check_rate_limit(api_key) at current_time.
RequestsAfterCheck(reqs, api_key, current_time) ==
    [k \in DOMAIN reqs \cup {api_key} |->
        IF k = api_key
        THEN WindowAfterCheck(StoredWindow(reqs, api_key), current_time)
        ELSE reqs[k]]

\* min(self.requests[api_key])
RECURSIVE MinOf(_)
MinOf(window) ==
    IF Len(window) = 1 THEN window[1]
    ELSE LET m == MinOf(Tail(window))
         IN  IF window[1] < m THEN window[1] ELSE m

Max0(x) == IF x > 0 THEN x ELSE 0

\* int(x) of a number of seconds held in ticks
IntSeconds(ticks) == ticks \div TicksPerSecond

\* RemainingResult with the expired timestamps counted as well.
RemainingResultUnpruned(reqs, api_key, current_time) ==
    IF api_key \notin DOMAIN reqs
    THEN [remaining |-> max_requests, reset_seconds |-> window_seconds]
    ELSE LET pruned == Prune(reqs[api_key], current_time)
         IN  [remaining |-> Max0(max_requests - Len(reqs[api_key])),
              reset_seconds |->
                  IF Len(pruned) > 0
                  THEN IntSeconds(Max0(WindowTicks - (current_time - MinOf(pruned))))
                  ELSE 0]

\* What get_remaining_requests(api_key) returns at current_time.
RemainingResult(reqs, api_key, current_time) ==
    IF api_key \notin DOMAIN reqs
    THEN [remaining |-> max_requests, reset_seconds |-> window_seconds]
    ELSE LET pruned == Prune(reqs[api_key], current_time)
         IN  [remaining |-> Max0(max_requests - Len(pruned)),
              reset_seconds |->
                  IF Len(pruned) > 0
                  THEN IntSeconds(Max0(WindowTicks - (current_time - MinOf(pruned))))
                  ELSE 0]

\* self.requests after get_remaining_requests(api_key): the pruned list is
\* stored back for a known key.
RequestsAfterRemaining(reqs, api_key, current_time) ==
    IF api_key \notin DOMAIN reqs
    THEN reqs
    ELSE [reqs EXCEPT ![api_key] = Prune(reqs[api_key], current_time)]

(***************************************************************************)
(* api.py: validate_api_key                                                *)
(***************************************************************************)
MinKeyLen == 8
ValidApiKey(api_key) == ~(api_key = << >> \/ Len(api_key) < MinKeyLen)

(***************************************************************************)
(* cache.py                                                                *)
(***************************************************************************)
CACHE_TTL_REALTIME == 3600
CACHE_TTL_HISTORICAL == 86400

\* get_cache_key without the normalisation of the question.
get_cache_key_raw(company, question) ==
    <<"financial_rag:">> \o company \o <<":">> \o question

\* RedisCache.get_cache_key
get_cache_key(company, question) ==
    <<"financial_rag:">> \o company \o <<":">> \o Strip(LowerStr(question))

\* if value: (a bytes or str value is true when it is not empty)
Truthy(value) == Len(value) > 0

\* What self.redis.get(key) yields, as RedisCache.get classifies it:
\* "hit" for a value that is true, "miss" for None and for an empty value.
GetOutcome(key) ==
    IF key \in DOMAIN store /\ Truthy(store[key].value) THEN "hit" ELSE "miss"

\* ttl = CACHE_TTL_REALTIME if is_real_time else CACHE_TTL_HISTORICAL
TtlFor(is_real_time) ==
    IF is_real_time THEN CACHE_TTL_REALTIME ELSE CACHE_TTL_HISTORICAL

\* The backend after a write that keeps an entry already there (SET NX).
StoreAfterSetnx(key, ttl, value) ==
    [k \in DOMAIN store \cup {key} |->
        IF k \in DOMAIN store THEN store[k]
        ELSE [value |-> value, ttl |-> ttl]]

\* the backend after self.redis.setex(key, ttl, value)
StoreAfterSetex(key, ttl, value) ==
    [k \in DOMAIN store \cup {key} |->
        IF k = key THEN [value |-> value, ttl |-> ttl] ELSE store[k]]

(***************************************************************************)
(* vector_store.py                                                         *)
(***************************************************************************)
TOP_K == 10

\* filter={"company": {"$eq": company}} dropped: every vector passes.
NoCompanyFilter(metadata, company) == TRUE

\* filter={"company": {"$eq": company}}
CompanyFilter(metadata, company) == metadata.company = company

\* The vectors the index may return for company.
Candidates(company) == {v \in vectors : CompanyFilter(v.metadata, company)}

\* The candidates ranked by descending score (equal scores by id).
RECURSIVE Ranked(_, _)
Ranked(cands, score) ==
    IF cands = {} THEN << >>
    ELSE LET best == CHOOSE v \in cands :
                        \A w \in cands :
                            \/ score[v.id] > score[w.id]
                            \/ score[v.id] = score[w.id] /\ v.id <= w.id
         IN  <<[id |-> best.id, score |-> score[best.id],
                metadata |-> best.metadata]>>
             \o Ranked(cands \ {best}, score)

\* results.get("matches", []) of index.query(vector, top_k, filter)
QueryMatches(company, score) ==
    LET all == Ranked(Candidates(company), score)
    IN  SubSeq(all, 1, IF Len(all) < TOP_K THEN Len(all) ELSE TOP_K)

(***************************************************************************)
(* rag_pipeline.py                                                         *)
(***************************************************************************)
ScoreFloor == 70

\* d.get(f, default)
Get(d, f, default) == IF f \in DOMAIN d THEN d[f] ELSE default

\* score = match.get('score', 0)
ScoreOf(match) == Get(match, "score", 0)

\* The similarity test excluding the score of the floor itself.
BelowOrAtFloor(score) == score <= ScoreFloor

\* if score < 0.7: continue
BelowFloor(score) == score < ScoreFloor

\* doc_context: one labeled block of the context.
doc_context(metadata) ==
    Get(metadata, "company", <<"Unknown">>) \o <<" ">>
        \o Get(metadata, "report_type", <<"Report">>) \o <<" (">>
        \o Get(metadata, "report_date", <<"Unknown date">>) \o <<"):\n">>
        \o Get(metadata, "content", << >>)

\* context_parts at the end of the loop of _build_context: the blocks of
\* the matches that pass the similarity test, in order.
RECURSIVE context_parts(_)
context_parts(matches) ==
    IF matches = << >> THEN << >>
    ELSE IF BelowFloor(ScoreOf(Head(matches)))
         THEN context_parts(Tail(matches))
         ELSE <<doc_context(Get(Head(matches), "metadata", << >>))>>
                  \o context_parts(Tail(matches))

\* sep.join(parts)
RECURSIVE Join(_, _)
Join(parts, sep) ==
    IF parts = << >> THEN << >>
    ELSE IF Len(parts) = 1 THEN parts[1]
    ELSE parts[1] \o sep \o Join(Tail(parts), sep)

\* RAGPipeline._build_context
build_context(matches) == Join(context_parts(matches), <<"\n\n">>)

\* if not matches:
NoMatches(matches) == matches = << >>

real_time_indicators ==
    << <<"c","u","r","r","e","n","t">>, <<"l","a","t","e","s","t">>,
       <<"n","o","w">>, <<"t","o","d","a","y">>,
       <<"p","r","e","s","e","n","t">>, <<"r","e","c","e","n","t">>,
       <<"t","h","i","s"," ","q","u","a","r","t","e","r">>,
       <<"t","h","i","s"," ","y","e","a","r">>,
       <<"t","h","i","s"," ","m","o","n","t","h">>,
       <<"t","h","i","s"," ","w","e","e","k">> >>

\* _is_real_time_query without question.lower().
is_real_time_query_cased(question) ==
    \E i \in 1..Len(real_time_indicators) :
        Contains(question, real_time_indicators[i])

\* RAGPipeline._is_real_time_query
is_real_time_query(question) ==
    \E i \in 1..Len(real_time_indicators) :
        Contains(LowerStr(question), real_time_indicators[i])

\* f"I don't have enough information about {company} to answer this question."
InsufficientAnswer(company) ==
    <<"I don't have enough information about ">> \o company
        \o <<" to answer this question.">>

ErrorAnswer == <<"Sorry, I encountered an error while processing your question.">>

(***************************************************************************)
(* metrics.py                                                              *)
(***************************************************************************)
\* MetricsManager.record_query
CountersAfterRecord(c, cache_hit) ==
    [total_queries |-> c.total_queries + 1,
     cache_hits |-> c.cache_hits + (IF cache_hit THEN 1 ELSE 0),
     cache_misses |-> c.cache_misses + (IF cache_hit THEN 0 ELSE 1)]

\* The gauge after process_query has returned, were the decrement made on
\* the returns of the try block only and not on the except path.
GaugeAfterNormalExit(gauge, source) ==
    IF source = "error" THEN gauge ELSE gauge - 1

\* finally: metrics.decrement_concurrent()
GaugeAfterExit(gauge, source) == gauge - 1

(***************************************************************************)
(* The requests.                                                           *)
(***************************************************************************)
Req == 1..NumReq

IdleReq ==
    [pc |-> "idle", company |-> << >>, question |-> << >>, api_key |-> << >>,
     admitted |-> FALSE, contended |-> FALSE, slots_before |-> -1,
     overlapped |-> FALSE, cached_on_entry |-> FALSE, got |-> "none", matches |-> << >>,
     answer |-> << >>, source |-> "none", resp |-> "none",
     embed_calls |-> 0, gen_calls |-> 0, set_calls |-> 0, wrote |-> FALSE,
     raised |-> "none", tel |-> "none", retrieval |-> "none"]

\* The stages in which a request is inside process_query.
InPipeline == {"connect", "cache_get", "embed", "generate", "cache_set"}

NoQuery == [company |-> << >>, raised |-> FALSE, matches |-> << >>]

IdleIngest ==
    [pc |-> "idle", doc |-> << >>, doc_id |-> 0, result |-> "none",
     embed_calls |-> 0, upserts |-> 0, db_writes |-> 0]

\* the fields process_document requires
RequiredFields == {"company", "report_type", "report_date", "content"}

\* The documents with every field given.
FullDocuments ==
    [company : Companies, report_type : {<<"10-K">>},
     report_date : {<<"2024">>}, section : {<<"Revenue">>},
     content : {<<"text">>}]

\* doc with the field f left out, and with the field f empty
Without(doc, f) == [g \in DOMAIN doc \ {f} |-> doc[g]]
Emptied(doc, f) == [doc EXCEPT ![f] = << >>]

\* The documents process_document is given: complete ones, and ones with a
\* required field missing or empty.
Documents ==
    FullDocuments
        \cup {Without(doc, f) : doc \in FullDocuments, f \in RequiredFields}
        \cup {Emptied(doc, f) : doc \in FullDocuments, f \in RequiredFields}

\* Returned with the return itself left out: the result is built and the
\* coroutine never resumes its caller.
ReturnedNoHandoff(rec, source, answer, raised) ==
    [rec EXCEPT !.pc = "returning", !.source = source, !.answer = answer,
                !.raised = raised]

\* The request record once process_query has returned: query_endpoint goes
\* on to sample dbsize when the cache is connected, else it responds.
Returned(rec, source, answer, raised) ==
    [rec EXCEPT !.pc = IF redis = "pool" THEN "dbsize" ELSE "done",
                !.resp = IF redis = "pool" THEN "none" ELSE "200",
                !.source = source, !.answer = answer, !.raised = raised]

\* The except branch left out: the exception leaves process_query and
\* query_endpoint, and the request fails.
ExceptReraise(rec, raised) ==
    [rec EXCEPT !.pc = "done", !.resp = "500", !.raised = raised]

\* The except branch calling the provider again instead of returning.
ExceptRetry(rec, raised) ==
    [rec EXCEPT !.pc = "embed", !.embed_calls = @ + 1, !.raised = raised]

\* The except branch caching the error answer before it returns.
ExceptCachesError(rec, raised) ==
    [rec EXCEPT !.pc = "cache_set", !.answer = ErrorAnswer,
                !.set_calls = @ + 1, !.raised = raised]

\* The except branch going on to the cache write.
ExceptThenWrite(rec, raised) ==
    [rec EXCEPT !.pc = "cache_set", !.set_calls = @ + 1, !.raised = raised]

\* except Exception as e: the error result of process_query
ExceptResult(rec, raised) == Returned(rec, "error", ErrorAnswer, raised)

rlvars == <<now, max_requests, window_seconds, requests, calls, last_status>>
cachevars == <<redis, store, cache_stats>>
metricvars == <<concurrent_requests, cache_size, counters>>
indexvars == <<pinecone_index, vectors>>
ingestvars == <<ingest, next_id, ingested, last_query>>
fnvars == <<probe>>
batchvars == <<batch>>
snapvars == <<query_latency, snapshot>>
ctxvars == <<context>>
pacevars == <<time_ms, last_request_time, loop, co, co_started, provider_log>>
pipevars == <<cachevars, metricvars, indexvars, ingestvars, openai_client, rq, started>>
vars == <<rlvars, pipevars, fnvars, pacevars, batchvars, snapvars, ctxvars>>

\* The denial left out: the request goes on to the cache lookup.
DeniedButServed(rec) == [rec EXCEPT !.pc = "cache_get", !.resp = "429"]

\* raise HTTPException(status_code=429, detail="Rate limit exceeded")
Denied(rec) == [rec EXCEPT !.pc = "done", !.resp = "429"]

\* POST /query arrives; it is served in the first free slot.
Arrive(r, company, question, api_key) ==
    /\ rq[r].pc = "idle"
    /\ \A o \in 1..(r - 1) : rq[o].pc # "idle"
    /\ started < MaxQueries
    /\ started' = started + 1
    /\ rq' = [rq EXCEPT ![r] = [IdleReq EXCEPT !.pc = "received",
                 !.company = company, !.question = question,
                 !.api_key = api_key]]
    /\ UNCHANGED <<fnvars, pacevars, batchvars, snapvars, ctxvars, rlvars, cachevars, metricvars, indexvars, ingestvars,
                   openai_client>>

\* query_endpoint up to the first await that suspends: validate_api_key,
\* check_rate_limit, and process_query up to the cache lookup.
Handle(r) ==
    /\ rq[r].pc = "received"
    /\ LET rec == rq[r]
           key == rec.api_key
           ok == CheckResult(requests, key, now)
           waiting == \E o \in Req \ {r} :
                         rq[o].pc = "received" /\ rq[o].api_key = key
           slots == max_requests
                      - Len(Prune(StoredWindow(requests, key), now))
       IN  IF ~ValidApiKey(key)
           THEN /\ rq' = [rq EXCEPT ![r] = [rec EXCEPT !.pc = "done",
                                                        !.resp = "401"]]
                /\ UNCHANGED <<requests, calls, concurrent_requests>>
           ELSE /\ requests' = RequestsAfterCheck(requests, key, now)
                /\ calls' = [calls EXCEPT ![key] =
                                Append(@, [t |-> now, ok |-> ok])]
                /\ IF ~ok
                   THEN /\ rq' = [rq EXCEPT ![r] =
                                    Denied([rec EXCEPT !.contended = waiting,
                                                       !.slots_before = slots])]
                        /\ UNCHANGED concurrent_requests
                   ELSE /\ concurrent_requests' = concurrent_requests + 1
                        /\ rq' = [rq EXCEPT ![r] = [rec EXCEPT
                                     !.pc = IF redis = "none" THEN "connect"
                                            ELSE "cache_get",
                                     !.admitted = TRUE,
                                     !.overlapped = concurrent_requests > 0,
                                     !.cached_on_entry =
                                         get_cache_key(rec.company,
                                                       rec.question)
                                             \in DOMAIN store,
                                     !.contended = waiting,
                                     !.slots_before = slots]]
    /\ UNCHANGED <<fnvars, pacevars, batchvars, snapvars, ctxvars, now, max_requests, window_seconds, last_status, cachevars,
                   cache_size, counters, indexvars, ingestvars, openai_client,
                   started>>

\* RedisCache.get: await self.connect() returns or raises.  A raise leaves
\* process_query through its except branch.
ConnectReturn(r, ok) ==
    /\ rq[r].pc = "connect"
    /\ IF ok
       THEN /\ redis' = "pool"
            /\ rq' = [rq EXCEPT ![r].pc = "cache_get"]
            /\ UNCHANGED concurrent_requests
       ELSE /\ rq' = [rq EXCEPT ![r] =
                        ExceptResult([@ EXCEPT !.got = "connect_failed"],
                                     "cache_connect")]
            /\ concurrent_requests' =
                   GaugeAfterExit(concurrent_requests, "error")
            /\ UNCHANGED redis
    /\ UNCHANGED <<fnvars, pacevars, batchvars, snapvars, ctxvars, rlvars, store, cache_stats, cache_size, counters,
                   indexvars, ingestvars, openai_client, started>>

\* RedisCache.get: await self.redis.get(key) returns or raises; on a hit
\* process_query records the query and returns, else it goes on to the
\* embedding call.
\*   tel: "ok", "record_failed" (metrics.record_query raises) or
\*        "audit_failed" (the database write of _record_query_metrics raises)
CacheGetReturn(r, ok, tel) ==
    /\ rq[r].pc = "cache_get"
    /\ LET rec == rq[r]
           key == get_cache_key(rec.company, rec.question)
           outcome == IF ok THEN GetOutcome(key) ELSE "get_failed"
       IN  IF outcome = "hit"
           THEN /\ cache_stats' = [cache_stats EXCEPT !.cache_hits = @ + 1]
                /\ IF tel = "record_failed"
                   THEN /\ rq' = [rq EXCEPT ![r] =
                                    ExceptResult([rec EXCEPT !.got = "hit",
                                                             !.tel = tel],
                                                 "record_query")]
                        /\ concurrent_requests' =
                               GaugeAfterExit(concurrent_requests, "error")
                        /\ UNCHANGED counters
                   ELSE /\ counters' = CountersAfterRecord(counters, TRUE)
                        /\ rq' = [rq EXCEPT ![r] =
                                    Returned([rec EXCEPT !.got = "hit",
                                                         !.tel = tel],
                                             "cache", store[key].value,
                                             "none")]
                        /\ concurrent_requests' =
                               GaugeAfterExit(concurrent_requests, "cache")
           ELSE /\ tel = "ok"
                /\ cache_stats' = [cache_stats EXCEPT !.cache_misses = @ + 1]
                /\ rq' = [rq EXCEPT ![r] = [rec EXCEPT
                             !.pc = "embed", !.embed_calls = @ + 1,
                             !.got = IF ~ok THEN "get_failed"
                                     ELSE IF key \in DOMAIN store
                                          THEN "empty_value" ELSE "absent"]]
                /\ UNCHANGED <<counters, concurrent_requests>>
    /\ UNCHANGED <<fnvars, pacevars, batchvars, snapvars, ctxvars, rlvars, redis, store, cache_size, indexvars, ingestvars,
                   openai_client, started>>

\* A direct call of rate_limiter.check_rate_limit(api_key).
check_rate_limit(api_key) ==
    /\ Len(calls[api_key]) < MaxCalls
    /\ requests' = RequestsAfterCheck(requests, api_key, now)
    /\ calls' = [calls EXCEPT ![api_key] =
                    Append(@, [t |-> now,
                               ok |-> CheckResult(requests, api_key, now)])]
    /\ UNCHANGED <<now, max_requests, window_seconds, last_status, pipevars, fnvars,
                   pacevars, batchvars, snapvars, ctxvars>>

\* A call of rate_limiter.get_remaining_requests(api_key) (GET /rate-limit).
get_remaining_requests(api_key) ==
    /\ requests' = RequestsAfterRemaining(requests, api_key, now)
    /\ last_status' = RemainingResult(requests, api_key, now)
    /\ UNCHANGED <<now, max_requests, window_seconds, calls, pipevars, fnvars,
                   pacevars, batchvars, snapvars, ctxvars>>

\* The wall clock advances.
Tick ==
    /\ now < MaxTime
    /\ now' = now + 1
    /\ UNCHANGED <<max_requests, window_seconds, requests, calls, last_status,
                   pipevars, fnvars,
                   pacevars, batchvars, snapvars, ctxvars>>


\* QueryFailureSurfaces with the failure of the index query raised as well.
AnyQueryFailureSurfaces(outcome) ==
    outcome \in {"pinecone_connect_failed", "query_failed"}

\* PineconeManager.query: the failures that leave it as an exception. The
\* lazy connect is outside the try block; a failure of self.index.query
\* is caught and [] returned.
QueryFailureSurfaces(outcome) == outcome = "pinecone_connect_failed"

\* The embedding call returns or raises; on success process_query queries
\* the vector store, builds the context and starts the generation call
\* (vector_store.query and _build_context do not suspend).
\*   outcome: "embed_failed", "pinecone_connect_failed", "query_failed",
\*            "openai_connect_failed", or "ok" with the scores the index
\*            gives the candidates
EmbedReturn(r, outcome, score) ==
    /\ rq[r].pc = "embed"
    /\ outcome = "pinecone_connect_failed" => pinecone_index = "none"
    /\ LET rec == rq[r]
           matches == IF outcome = "query_failed" THEN << >>
                      ELSE QueryMatches(rec.company, score)
       IN  CASE outcome = "embed_failed" ->
                /\ rq' = [rq EXCEPT ![r] = ExceptResult(rec, "embedding")]
                /\ concurrent_requests' =
                       GaugeAfterExit(concurrent_requests, "error")
                /\ UNCHANGED <<pinecone_index, openai_client>>
             [] QueryFailureSurfaces(outcome) ->
                /\ rq' = [rq EXCEPT ![r] =
                            ExceptResult([rec EXCEPT !.retrieval =
                                             IF outcome = "query_failed"
                                             THEN "failed" ELSE @],
                                         IF outcome = "query_failed"
                                         THEN "pinecone_query"
                                         ELSE "pinecone_connect")]
                /\ concurrent_requests' =
                       GaugeAfterExit(concurrent_requests, "error")
                /\ UNCHANGED <<pinecone_index, openai_client>>
             [] outcome \in {"query_failed", "ok", "openai_connect_failed"}
                    /\ NoMatches(matches) ->
                /\ outcome # "openai_connect_failed"
                /\ pinecone_index' = "index"
                /\ rq' = [rq EXCEPT ![r] =
                            Returned([rec EXCEPT !.matches = matches,
                                         !.retrieval =
                                             IF outcome = "query_failed"
                                             THEN "failed" ELSE "ok"],
                                     "generated",
                                     InsufficientAnswer(rec.company), "none")]
                /\ concurrent_requests' =
                       GaugeAfterExit(concurrent_requests, "generated")
                /\ UNCHANGED openai_client
             [] outcome = "openai_connect_failed" /\ ~NoMatches(matches) ->
                /\ openai_client = "none"
                /\ pinecone_index' = "index"
                /\ rq' = [rq EXCEPT ![r] =
                            ExceptResult([rec EXCEPT !.matches = matches,
                                                      !.retrieval = "ok"],
                                         "openai_connect")]
                /\ concurrent_requests' =
                       GaugeAfterExit(concurrent_requests, "error")
                /\ UNCHANGED openai_client
             [] outcome = "ok" /\ ~NoMatches(matches) ->
                /\ pinecone_index' = "index"
                /\ openai_client' = "client"
                /\ rq' = [rq EXCEPT ![r] = [rec EXCEPT
                             !.pc = "generate", !.matches = matches,
                             !.retrieval = "ok", !.gen_calls = @ + 1]]
                /\ UNCHANGED concurrent_requests
             [] OTHER -> FALSE
    /\ UNCHANGED <<fnvars, pacevars, batchvars, snapvars, ctxvars, rlvars, cachevars, cache_size, counters, vectors,
                   ingestvars, started>>

\* The generation call returns text or raises; on success process_query
\* classifies the question and starts the cache write (self.redis is set:
\* the lookup of this request went through it).
GenerateReturn(r, ok, text) ==
    /\ rq[r].pc = "generate"
    /\ IF ok
       THEN /\ rq' = [rq EXCEPT ![r] = [@ EXCEPT
                         !.pc = "cache_set", !.answer = text,
                         !.set_calls = @ + 1]]
            /\ UNCHANGED concurrent_requests
       ELSE /\ rq' = [rq EXCEPT ![r] = ExceptResult(@, "generation")]
            /\ concurrent_requests' =
                   GaugeAfterExit(concurrent_requests, "error")
    /\ UNCHANGED <<fnvars, pacevars, batchvars, snapvars, ctxvars, rlvars, cachevars, cache_size, counters, indexvars,
                   ingestvars, openai_client, started>>

\* The request record after cache.set, were a failure of the write raised
\* to process_query instead of being logged.
AfterSetRaising(rec, ok) ==
    IF ok THEN Returned([rec EXCEPT !.wrote = TRUE], "generated", rec.answer,
                        "none")
    ELSE ExceptResult(rec, "cache_set")

\* The request record after cache.set: a failure of the write is logged in
\* RedisCache.set, and process_query returns the generated answer.
AfterSet(rec, ok) ==
    Returned([rec EXCEPT !.wrote = ok], "generated", rec.answer, "none")

\* RedisCache.set: await self.redis.setex(key, ttl, value) returns or raises
\* (a raise is logged and swallowed); process_query records the query and
\* returns the generated answer.
\*   tel: "ok", "record_failed" (metrics.record_query raises) or
\*        "audit_failed" (the database write of _record_query_metrics raises)
CacheSetReturn(r, ok, tel) ==
    /\ rq[r].pc = "cache_set"
    /\ LET rec == rq[r]
           key == get_cache_key(rec.company, rec.question)
           ttl == TtlFor(is_real_time_query(rec.question))
           \* the request once cache.set is over (line 92)
           after == AfterSet([rec EXCEPT !.tel = tel], ok)
       IN  /\ store' = IF ok THEN StoreAfterSetex(key, ttl, rec.answer)
                       ELSE store
           \* metrics.record_query and _record_query_metrics (lines 94-105)
           /\ IF tel = "record_failed" /\ after.source = "generated"
              THEN /\ rq' = [rq EXCEPT ![r] =
                               ExceptResult([rec EXCEPT !.wrote = ok,
                                                        !.tel = tel],
                                            "record_query")]
                   /\ UNCHANGED counters
              ELSE /\ rq' = [rq EXCEPT ![r] = after]
                   /\ counters' = IF after.source = "generated"
                                  THEN CountersAfterRecord(counters, FALSE)
                                  ELSE counters
           /\ concurrent_requests' =
                  GaugeAfterExit(concurrent_requests, rq'[r].source)
    /\ UNCHANGED <<fnvars, pacevars, batchvars, snapvars, ctxvars, rlvars, redis, cache_stats, cache_size, indexvars,
                   ingestvars, openai_client, started>>

\* query_endpoint: await cache.redis.dbsize() returns or raises; on success
\* update_cache_size is queued as a background task and the result is the
\* response, on a raise the request fails.
DbsizeReturn(r, ok) ==
    /\ rq[r].pc = "dbsize"
    /\ IF ok
       THEN /\ cache_size' = Cardinality(DOMAIN store)
            /\ rq' = [rq EXCEPT ![r] = [@ EXCEPT !.pc = "done",
                                                 !.resp = "200"]]
       ELSE /\ rq' = [rq EXCEPT ![r] = [@ EXCEPT !.pc = "done",
                                                 !.resp = "500"]]
            /\ UNCHANGED cache_size
    /\ UNCHANGED <<fnvars, pacevars, batchvars, snapvars, ctxvars, rlvars, cachevars, concurrent_requests, counters,
                   indexvars, ingestvars, openai_client, started>>

\* The response has been sent: the slot serves the next request.
Finish(r) ==
    /\ rq[r].pc = "done"
    /\ rq' = [rq EXCEPT ![r] = IdleReq]
    /\ UNCHANGED <<fnvars, pacevars, batchvars, snapvars, ctxvars, rlvars, cachevars, metricvars, indexvars, ingestvars,
                   openai_client, started>>

\* The TTL of a cache entry runs out in the backend.
Expire(key) ==
    /\ key \in DOMAIN store
    /\ store' = [k \in DOMAIN store \ {key} |-> store[k]]
    /\ UNCHANGED <<fnvars, pacevars, batchvars, snapvars, ctxvars, rlvars, redis, cache_stats, metricvars, indexvars,
                   ingestvars, openai_client, rq, started>>

\* startup_event: the cache and the vector store are connected.
Startup ==
    /\ started = 0 /\ ingest = IdleIngest
    /\ redis = "none" /\ pinecone_index = "none"
    /\ redis' = "pool"
    /\ pinecone_index' = "index"
    /\ UNCHANGED <<fnvars, pacevars, batchvars, snapvars, ctxvars, rlvars, store, cache_stats, metricvars, vectors,
                   ingestvars, openai_client, rq, started>>

(***************************************************************************)
(* document_processor.py                                                   *)
(***************************************************************************)
\* document.get(f) is true: the field is given and not empty
FieldGiven(doc, f) == f \in DOMAIN doc /\ Truthy(doc[f])

\* The validation testing only that the fields are given, not that they
\* are not empty.
RequiredFieldsNotNone(doc) == \A f \in RequiredFields : f \in DOMAIN doc

\* all([company, report_type, report_date, content])
RequiredFieldsPresent(doc) == \A f \in RequiredFields : FieldGiven(doc, f)

PREVIEW_LEN == 300

\* content[:300]
Preview(content) ==
    SubSeq(content, 1,
           IF Len(content) < PREVIEW_LEN THEN Len(content) ELSE PREVIEW_LEN)

\* the metadata process_document stores with the vector
MetadataOf(doc) ==
    [company |-> doc.company, report_type |-> doc.report_type,
     report_date |-> doc.report_date, section |-> doc.section,
     content |-> Preview(doc.content)]

\* process_document on a document that fails the validation: the rejection.
RejectedDocument(doc) ==
    [IdleIngest EXCEPT !.doc = doc, !.result = "rejected"]

\* process_document on a valid document, up to the embedding call: the id
\* is generated and the call started.
BeginDocument(doc) ==
    /\ next_id < MaxDocs
    /\ next_id' = next_id + 1
    /\ ingested' = [i \in DOMAIN ingested \cup {next_id + 1} |->
                       IF i = next_id + 1 THEN doc.company
                       ELSE ingested[i]]
    /\ ingest' = [IdleIngest EXCEPT !.pc = "embed", !.doc = doc,
                     !.doc_id = next_id + 1, !.embed_calls = 1]

\* process_document up to the embedding call.
IngestStart(doc) ==
    /\ ingest.pc = "idle"
    /\ batch.pc # "running"
    /\ IF ~RequiredFieldsPresent(doc)
       THEN /\ ingest' = RejectedDocument(doc)
            /\ UNCHANGED <<next_id, ingested>>
       ELSE BeginDocument(doc)
    /\ UNCHANGED <<fnvars, pacevars, batchvars, snapvars, ctxvars, rlvars, cachevars, metricvars, indexvars, openai_client,
                   rq, started, last_query>>

\* PineconeManager.index once the embedding call of process_document is
\* over with outcome.
IndexAfterDocument(outcome) ==
    IF outcome \in {"embed_failed", "pinecone_connect_failed"}
    THEN pinecone_index ELSE "index"

\* The index once the embedding call of process_document is over.
VectorsAfterDocument(outcome) ==
    IF outcome \in {"db_failed", "ok"}
    THEN vectors \cup {[id |-> ingest.doc_id,
                        metadata |-> MetadataOf(ingest.doc)]}
    ELSE vectors

\* The process_document call once it has returned.
IngestAfterDocument(outcome) ==
    [ingest EXCEPT !.pc = "idle",
        !.upserts = IF outcome \in {"upsert_failed", "db_failed", "ok"}
                    THEN 1 ELSE 0,
        !.db_writes = IF outcome \in {"db_failed", "ok"} THEN 1 ELSE 0,
        !.result = IF outcome = "ok" THEN "success" ELSE "error"]

\* The embedding call of process_document returns or raises; on success the
\* vector is upserted and the document stored in the database.
\*   outcome: "embed_failed", "pinecone_connect_failed", "upsert_failed",
\*            "db_failed", "ok"
IngestEmbedReturn(outcome) ==
    /\ ingest.pc = "embed"
    /\ batch.pc # "running"
    /\ outcome = "pinecone_connect_failed" => pinecone_index = "none"
    /\ pinecone_index' = IndexAfterDocument(outcome)
    /\ vectors' = VectorsAfterDocument(outcome)
    /\ ingest' = IngestAfterDocument(outcome)
    /\ UNCHANGED <<fnvars, pacevars, batchvars, snapvars, ctxvars, rlvars, cachevars, metricvars, openai_client, rq, started,
                   next_id, ingested, last_query>>

\* A direct call of vector_store.query(embedding, company): connect() may
\* raise, a failure of index.query gives [].
\*   outcome: "pinecone_connect_failed", "query_failed", "ok"
QueryIndex(company, outcome, score) ==
    /\ ingest.pc = "idle" \/ ingest.pc = "embed"
    /\ outcome = "pinecone_connect_failed" => pinecone_index = "none"
    /\ pinecone_index' =
          IF outcome = "pinecone_connect_failed" THEN pinecone_index
          ELSE "index"
    /\ last_query' =
          [company |-> company,
           raised |-> outcome = "pinecone_connect_failed",
           matches |-> IF outcome = "ok" THEN QueryMatches(company, score)
                       ELSE << >>]
    /\ UNCHANGED <<fnvars, pacevars, batchvars, snapvars, ctxvars, rlvars, cachevars, metricvars, vectors, openai_client, rq,
                   started, ingest, next_id, ingested>>

(***************************************************************************)
(* The cache key and the freshness classification, applied on their own.   *)
(***************************************************************************)
NoTtl == [question |-> << >>, is_real_time |-> FALSE, ttl |-> 0]

NoProbe == [keys |-> << >>, ttl |-> NoTtl]

\* cache.get_cache_key(company, question) is called; the log keeps the
\* last two calls.
CacheKeyCall(company, question) ==
    /\ LET call == [company |-> company, question |-> question,
                    key |-> get_cache_key(company, question)]
       IN  probe' = [probe EXCEPT !.keys =
                        IF Len(@) < 2 THEN Append(@, call)
                        ELSE <<@[2], call>>]
    /\ UNCHANGED <<rlvars, pipevars, pacevars, batchvars, snapvars, ctxvars>>

\* process_query, steps 5 and 6: the question is classified and the TTL of
\* the cache write selected.
ClassifyCall(question) ==
    /\ LET is_real_time == is_real_time_query(question)
       IN  probe' = [probe EXCEPT !.ttl =
                        [question |-> question, is_real_time |-> is_real_time,
                         ttl |-> TtlFor(is_real_time)]]
    /\ UNCHANGED <<rlvars, pipevars, pacevars, batchvars, snapvars, ctxvars>>

\* The companies and questions of the requests whose keys are compared:
\* free text, which may hold the separator of the key.
KeyCompanies == {<<"A">>, <<"A", ":", "b">>, Apple, Tesla}

SeparatorQuestions ==
    {<<"c">>, <<"b", ":", "c">>, <<"R","e","v","?">>,
     <<" ","r","e","v","?"," ">>}

(***************************************************************************)
(* llm.py: the pacing of the calls to the provider.  The coroutines run on *)
(* one event loop: a blocking call (time.sleep, the synchronous Pinecone   *)
(* query) holds the thread of the loop, and no other coroutine is resumed  *)
(* until it returns.                                                       *)
(***************************************************************************)
MIN_REQUEST_INTERVAL_MS == 50

Co == 1..NumCo

IdleCo == [pc |-> "idle", kind |-> "none", call |-> "none", wake |-> 0]

\* _rate_limit without the sleep.
NoSleep(current_time) == 0

\* _rate_limit: the time to sleep when it is entered at current_time
\* (0: no sleep).
SleepNeeded(current_time) ==
    LET time_since_last == current_time - last_request_time
    IN  IF time_since_last < MIN_REQUEST_INTERVAL_MS
        THEN MIN_REQUEST_INTERVAL_MS - time_since_last
        ELSE 0

\* Coroutine c, in state rec, enters get_embedding_async or
\* generate_answer_async at current_time: _rate_limit either sleeps, holding
\* the loop, or sets last_request_time, and the call is issued.
CallProvider(c, rec, call, current_time) ==
    LET sleep == SleepNeeded(current_time)
    IN  /\ time_ms' = current_time
        /\ IF sleep > 0
           THEN /\ co' = [co EXCEPT ![c] = [rec EXCEPT !.pc = "sleeping",
                              !.call = call, !.wake = current_time + sleep]]
                /\ loop' = c
                /\ UNCHANGED <<last_request_time, provider_log>>
           ELSE /\ co' = [co EXCEPT ![c] = [rec EXCEPT !.pc = "awaiting",
                                                       !.call = call]]
                /\ loop' = 0
                /\ last_request_time' = current_time
                /\ provider_log' = Append(provider_log,
                       [t |-> current_time, call |-> call, by |-> c])

\* A query (process_query after a cache miss) or an ingestion
\* (process_document) reaches its embedding call.
CoStart(c, kind) ==
    /\ loop = 0
    /\ co[c].pc = "idle"
    /\ co_started < MaxCoStarts
    /\ co_started' = co_started + 1
    /\ CallProvider(c, [IdleCo EXCEPT !.kind = kind], "embedding", time_ms)
    /\ UNCHANGED <<rlvars, pipevars, fnvars, batchvars, snapvars, ctxvars>>

\* time.sleep returns, after the time asked for or later; _rate_limit sets
\* last_request_time and the call is issued.
SleepReturn(c, over) ==
    /\ co[c].pc = "sleeping"
    /\ time_ms' = co[c].wake + over
    /\ last_request_time' = co[c].wake + over
    /\ provider_log' = Append(provider_log,
           [t |-> co[c].wake + over, call |-> co[c].call, by |-> c])
    /\ co' = [co EXCEPT ![c].pc = "awaiting"]
    /\ loop' = 0
    /\ UNCHANGED <<rlvars, pipevars, fnvars, batchvars, snapvars, ctxvars, co_started>>

\* The awaited provider call of c returns or raises, and c is resumed.  A
\* query whose embedding call succeeded calls vector_store.query, which is
\* synchronous; every other coroutine is over.
CallReturn(c, ok) ==
    /\ loop = 0
    /\ co[c].pc = "awaiting"
    /\ IF ok /\ co[c].kind = "query" /\ co[c].call = "embedding"
       THEN /\ co' = [co EXCEPT ![c].pc = "querying"]
            /\ loop' = c
       ELSE /\ co' = [co EXCEPT ![c] = IdleCo]
            /\ loop' = 0
    /\ UNCHANGED <<rlvars, pipevars, fnvars, batchvars, snapvars, ctxvars, time_ms, last_request_time,
                   co_started, provider_log>>

\* vector_store.query returns after took milliseconds; with matches the
\* query goes on to generate_answer_async, without it returns.
QueryReturn(c, found, took) ==
    /\ co[c].pc = "querying"
    /\ IF found
       THEN CallProvider(c, co[c], "generation", time_ms + took)
       ELSE /\ co' = [co EXCEPT ![c] = IdleCo]
            /\ loop' = 0
            /\ time_ms' = time_ms + took
            /\ UNCHANGED <<last_request_time, provider_log>>
    /\ UNCHANGED <<rlvars, pipevars, fnvars, batchvars, snapvars, ctxvars, co_started>>

\* Time passes while the loop is free.
PaceTick ==
    /\ loop = 0
    /\ time_ms + PaceStepMs <= StartMs + MaxElapsedMs
    /\ time_ms' = time_ms + PaceStepMs
    /\ UNCHANGED <<rlvars, pipevars, fnvars, batchvars, snapvars, ctxvars, last_request_time, loop, co,
                   co_started, provider_log>>

(***************************************************************************)
(* document_processor.py: batch_process_documents                          *)
(***************************************************************************)
IdleBatch ==
    [pc |-> "idle", docs |-> << >>, results |-> << >>, outcomes |-> << >>,
     ids |-> << >>, report |-> [total_documents |-> 0, successful |-> 0,
                                failed |-> 0]]

\* The documents of the batches.
BatchDocuments ==
    FullDocuments
        \cup {Emptied(doc, "content") : doc \in {d \in FullDocuments :
                                                  d.company = Apple}}

\* The lists batch_process_documents is given.
Batches ==
    UNION {[1..n -> BatchDocuments] : n \in 0..MaxBatch}

\* The tally counting every result as a success.
CountAll(results) == Len(results)

\* sum(1 for r in results if r.get('success', False))
CountSuccessful(results) ==
    Cardinality({i \in 1..Len(results) : results[i]})

\* The statistics batch_process_documents returns.
BatchReport(docs, results) ==
    [total_documents |-> Len(docs),
     successful |-> CountSuccessful(results),
     failed |-> Len(results) - CountSuccessful(results)]

\* The loop of batch_process_documents from the state b on, as far as it
\* runs without suspending: the documents that fail the validation are
\* rejected at once, one after the other.
RECURSIVE RunRejected(_)
RunRejected(b) ==
    LET i == Len(b.results) + 1
    IN  IF i > Len(b.docs) \/ RequiredFieldsPresent(b.docs[i]) THEN b
        ELSE RunRejected([b EXCEPT !.results = Append(@, FALSE),
                                   !.outcomes = Append(@, "rejected"),
                                   !.ids = Append(@, 0)])

\* The loop goes on from the state b: it suspends at the embedding call of
\* the next valid document, or it ends and the statistics are returned.
BatchContinue(b) ==
    LET c == RunRejected(b)
        i == Len(c.results) + 1
    IN  IF i > Len(c.docs)
        THEN /\ batch' = [c EXCEPT !.pc = "done",
                                   !.report = BatchReport(c.docs, c.results)]
             /\ ingest' = IdleIngest
             /\ UNCHANGED <<next_id, ingested>>
        ELSE /\ batch' = c
             /\ BeginDocument(c.docs[i])

\* batch_process_documents(docs) is called.
BatchStart(docs) ==
    /\ batch.pc # "running"
    /\ ingest.pc = "idle"
    /\ next_id + Cardinality({i \in 1..Len(docs) :
                                 RequiredFieldsPresent(docs[i])}) <= MaxDocs
    /\ BatchContinue([IdleBatch EXCEPT !.pc = "running", !.docs = docs])
    /\ UNCHANGED <<rlvars, cachevars, metricvars, indexvars, openai_client,
                   rq, started, last_query, fnvars, pacevars, snapvars, ctxvars>>

\* The embedding call of the document in progress returns or raises:
\* process_document finishes and returns its result, which is appended, and
\* the loop goes on.
BatchEmbedReturn(outcome) ==
    /\ batch.pc = "running"
    /\ ingest.pc = "embed"
    /\ outcome = "pinecone_connect_failed" => pinecone_index = "none"
    /\ pinecone_index' = IndexAfterDocument(outcome)
    /\ vectors' = VectorsAfterDocument(outcome)
    /\ BatchContinue([batch EXCEPT
           !.results = Append(@, IngestAfterDocument(outcome).result = "success"),
           !.outcomes = Append(@, outcome),
           !.ids = Append(@, ingest.doc_id)])
    /\ UNCHANGED <<rlvars, cachevars, metricvars, openai_client, rq, started,
                   last_query, fnvars, pacevars, snapvars, ctxvars>>

(***************************************************************************)
(* metrics.py and api.py: the metrics snapshot.  Durations are in ticks,   *)
(* quotients are kept as fractions [num, den].                             *)
(***************************************************************************)
\* MetricsManager.start_time: the manager is built when the clock starts.
start_time == 0

\* The latencies record_query is given, in ticks.
Latencies == {1, 3}

Fraction(n, d) == [num |-> n, den |-> d]

IdleSnapshot ==
    [pc |-> "idle", query_count |-> 0, cache_hit_ratio |-> Fraction(0, 1),
     concurrent_requests |-> 0, average_latency |-> Fraction(0, 1),
     cache_size |-> 0, recorded |-> 0, latency_total |-> 0]

\* MetricsManager.record_query(company, latency, cache_hit) is called: the
\* latency is observed in the histogram and the query counted.
RecordQuery(company, latency, cache_hit) ==
    /\ counters.total_queries < MaxRecorded
    /\ query_latency' = [sum |-> query_latency.sum + latency,
                         count |-> query_latency.count + 1]
    /\ counters' = CountersAfterRecord(counters, cache_hit)
    /\ UNCHANGED <<rlvars, cachevars, concurrent_requests, cache_size,
                   indexvars, ingestvars, openai_client, rq, started, fnvars,
                   pacevars, batchvars, snapshot, ctxvars>>

\* get_metrics_summary: total_queries / max(1, uptime), the uptime in
\* seconds.
queries_per_second ==
    IF now - start_time <= TicksPerSecond
    THEN Fraction(counters.total_queries, 1)
    ELSE Fraction(counters.total_queries * TicksPerSecond, now - start_time)

\* CacheManager.get_cache_stats: the hit ratio.
hit_ratio ==
    IF cache_stats.cache_hits + cache_stats.cache_misses > 0
    THEN Fraction(cache_stats.cache_hits,
                  cache_stats.cache_hits + cache_stats.cache_misses)
    ELSE Fraction(0, 1)

\* get_metrics up to the dbsize call of get_cache_stats: the summary of the
\* metrics manager is taken.
GetMetrics ==
    /\ snapshot.pc # "dbsize"
    /\ snapshot' = [IdleSnapshot EXCEPT
                       !.pc = IF redis = "none" THEN "returned" ELSE "dbsize",
                       !.query_count = counters.total_queries,
                       !.average_latency = queries_per_second,
                       !.cache_hit_ratio = hit_ratio,
                       !.concurrent_requests =
                           IF redis = "none" THEN concurrent_requests ELSE 0,
                       !.recorded = query_latency.count,
                       !.latency_total = query_latency.sum]
    /\ UNCHANGED <<rlvars, pipevars, fnvars, pacevars, batchvars,
                   query_latency, ctxvars>>

\* The dbsize call of get_cache_stats returns or raises (then the size is
\* 0), and get_metrics returns the combined metrics.
GetMetricsReturn(ok) ==
    /\ snapshot.pc = "dbsize"
    /\ snapshot' = [snapshot EXCEPT
                       !.pc = "returned",
                       !.concurrent_requests = concurrent_requests,
                       !.cache_size = IF ok THEN Cardinality(DOMAIN store)
                                      ELSE 0]
    /\ UNCHANGED <<rlvars, pipevars, fnvars, pacevars, batchvars,
                   query_latency, ctxvars>>

\* The cache pool is created (startup of the service, before anything is
\* served).
CacheConnect ==
    /\ redis = "none"
    /\ snapshot = IdleSnapshot /\ counters.total_queries = 0
    /\ redis' = "pool"
    /\ UNCHANGED <<rlvars, store, cache_stats, metricvars, indexvars,
                   ingestvars, openai_client, rq, started, fnvars, pacevars,
                   batchvars, snapvars, ctxvars>>

(***************************************************************************)
(* rag_pipeline.py: _build_context applied on its own.                     *)
(***************************************************************************)
NoContext == [matches |-> << >>, parts |-> << >>, text |-> << >>]

\* The matches _build_context is given: with a score below, at and above
\* the floor, with no score, with no metadata.
ContextMatches ==
    LET apple == MetadataOf(CHOOSE d \in FullDocuments : d.company = Apple)
        tesla == MetadataOf(CHOOSE d \in FullDocuments : d.company = Tesla)
    IN  {[id |-> 1, score |-> 69, metadata |-> apple],
         [id |-> 2, score |-> 70, metadata |-> apple],
         [id |-> 3, score |-> 90, metadata |-> tesla],
         [id |-> 4, metadata |-> apple],
         [id |-> 5, score |-> 71]}

MatchLists == UNION {[1..n -> ContextMatches] : n \in 0..MaxMatches}

\* _build_context(matches) is called.
BuildContextCall(matches) ==
    /\ context' = [matches |-> matches, parts |-> context_parts(matches),
                   text |-> build_context(matches)]
    /\ UNCHANGED <<rlvars, pipevars, fnvars, pacevars, batchvars, snapvars>>

(***************************************************************************)
(* The specifications.                                                     *)
(***************************************************************************)
Init ==
    /\ now = 0
    /\ max_requests \in 1..MaxLimit
    /\ window_seconds \in 1..MaxWindow
    /\ requests = << >>
    /\ calls = [k \in ApiKeys |-> << >>]
    /\ last_status = NoStatus
    /\ redis = "none"
    /\ store = << >>
    /\ cache_stats = [cache_hits |-> 0, cache_misses |-> 0]
    /\ pinecone_index = "none"
    /\ vectors = {}
    /\ openai_client = "none"
    /\ concurrent_requests = 0
    /\ cache_size = 0
    /\ counters = [total_queries |-> 0, cache_hits |-> 0, cache_misses |-> 0]
    /\ rq = [r \in Req |-> IdleReq]
    /\ started = 0
    /\ ingest = IdleIngest
    /\ next_id = 0
    /\ ingested = << >>
    /\ last_query = NoQuery
    /\ probe = NoProbe
    /\ time_ms = StartMs
    /\ last_request_time = 0
    /\ loop = 0
    /\ co = [c \in Co |-> IdleCo]
    /\ co_started = 0
    /\ provider_log = << >>
    /\ batch = IdleBatch
    /\ query_latency = [sum |-> 0, count |-> 0]
    /\ snapshot = IdleSnapshot
    /\ context = NoContext

EmbedOutcomes ==
    {"embed_failed", "pinecone_connect_failed", "query_failed",
     "openai_connect_failed", "ok"}
IngestOutcomes ==
    {"embed_failed", "pinecone_connect_failed", "upsert_failed", "db_failed",
     "ok"}

\* The service: documents are ingested, then queries are served
\* concurrently, all within one rate-limit window.
Next ==
    \/ Startup
    \/ \E r \in Req, cq \in Queries, k \in QueryKeys :
          Arrive(r, cq[1], cq[2], k)
    \/ \E r \in Req : Handle(r)
    \/ \E r \in Req, ok \in BOOLEAN : ConnectReturn(r, ok)
    \/ \E r \in Req, ok \in BOOLEAN : CacheGetReturn(r, ok, "ok")
    \/ \E r \in Req, o \in EmbedOutcomes :
          \E score \in [{v.id : v \in Candidates(rq[r].company)} -> ServeScores] :
              EmbedReturn(r, o, score)
    \/ \E r \in Req, ok \in BOOLEAN, text \in ServeTexts :
          GenerateReturn(r, ok, text)
    \/ \E r \in Req, ok \in BOOLEAN : CacheSetReturn(r, ok, "ok")
    \/ \E r \in Req, ok \in BOOLEAN : DbsizeReturn(r, ok)
    \/ \E r \in Req : Finish(r)
    \/ \E key \in DOMAIN store : Expire(key)
    \/ started = 0 /\ next_id = 0 /\ \E doc \in Documents :
          RequiredFieldsPresent(doc) /\ IngestStart(doc)
    \/ IngestEmbedReturn("ok")

Spec == Init /\ [][Next]_vars

TelOutcomes == {"ok", "record_failed", "audit_failed"}

\* The service with the cache, the index and the provider answering, while
\* the recording of the query metrics may fail.
NextTel ==
    \/ Startup
    \/ \E r \in Req, cq \in Queries, k \in QueryKeys :
          Arrive(r, cq[1], cq[2], k)
    \/ \E r \in Req : Handle(r)
    \/ \E r \in Req, tel \in TelOutcomes : CacheGetReturn(r, TRUE, tel)
    \/ \E r \in Req :
          \E score \in [{v.id : v \in Candidates(rq[r].company)} -> {90}] :
              EmbedReturn(r, "ok", score)
    \/ \E r \in Req : GenerateReturn(r, TRUE, <<"a">>)
    \/ \E r \in Req, ok \in BOOLEAN, tel \in TelOutcomes :
          CacheSetReturn(r, ok, tel)
    \/ \E r \in Req : DbsizeReturn(r, TRUE)
    \/ \E r \in Req : Finish(r)
    \/ started = 0 /\ next_id < MaxDocs /\ \E doc \in FullDocuments :
          IngestStart(doc)
    \/ IngestEmbedReturn("ok")

SpecTel == Init /\ [][NextTel]_vars

\* Ingestion and retrieval: documents are ingested while the index is
\* queried.
NextIngest ==
    \/ \E doc \in Documents : IngestStart(doc)
    \/ \E o \in IngestOutcomes : IngestEmbedReturn(o)
    \/ \E c \in Companies,
          o \in {"pinecone_connect_failed", "query_failed", "ok"} :
          \E score \in [{v.id : v \in Candidates(c)} -> Scores] :
              QueryIndex(c, o, score)

SpecIngest == Init /\ [][NextIngest]_vars

\* The rate limiter alone, called directly while the clock advances.
NextRL ==
    \/ \E k \in ApiKeys : check_rate_limit(k)
    \/ \E k \in ApiKeys : get_remaining_requests(k)
    \/ Tick

SpecRL == Init /\ [][NextRL]_vars

\* The pure functions of the cache, applied to every input in turn.
NextFn ==
    \/ \E c \in Companies, q \in KeyQuestions : CacheKeyCall(c, q)
    \/ \E q \in FnQuestions : ClassifyCall(q)

SpecFn == Init /\ [][NextFn]_vars

\* The provider client: coroutines (queries and ingestions) call the
\* provider while the clock advances.
NextPace ==
    \/ \E c \in Co, kind \in {"query", "ingest"} : CoStart(c, kind)
    \/ \E c \in Co, over \in {0, PaceStepMs} : SleepReturn(c, over)
    \/ \E c \in Co, ok \in BOOLEAN : CallReturn(c, ok)
    \/ \E c \in Co, found \in BOOLEAN, took \in {0, PaceStepMs} :
          QueryReturn(c, found, took)
    \/ PaceTick

SpecPace == Init /\ [][NextPace]_vars

\* Batch ingestion: batches of documents, complete or not, are processed
\* one after the other.
NextBatch ==
    \/ \E docs \in Batches : BatchStart(docs)
    \/ \E o \in IngestOutcomes : BatchEmbedReturn(o)

SpecBatch == Init /\ [][NextBatch]_vars

\* The metrics: queries are recorded with their latencies, the clock
\* advances, snapshots are taken.
NextMetrics ==
    \/ \E c \in Companies, l \in Latencies, h \in BOOLEAN :
          RecordQuery(c, l, h)
    \/ Tick
    \/ CacheConnect
    \/ GetMetrics
    \/ \E ok \in BOOLEAN : GetMetricsReturn(ok)

SpecMetrics == Init /\ [][NextMetrics]_vars

\* _build_context on its own, on lists of matches.
NextCtx == \E matches \in MatchLists : BuildContextCall(matches)

SpecCtx == Init /\ [][NextCtx]_vars

\* Every external call a request is waiting for returns or fails in the
\* end, and the event loop then resumes the request.
ExternalCallsReturn ==
    \A r \in Req :
        /\ WF_vars(\E ok \in BOOLEAN : ConnectReturn(r, ok))
        /\ WF_vars(\E ok \in BOOLEAN : CacheGetReturn(r, ok, "ok"))
        /\ WF_vars(\E o \in EmbedOutcomes :
               \E score \in [{v.id : v \in Candidates(rq[r].company)}
                                 -> ServeScores] :
                   EmbedReturn(r, o, score))
        /\ WF_vars(\E ok \in BOOLEAN, text \in ServeTexts :
               GenerateReturn(r, ok, text))
        /\ WF_vars(\E ok \in BOOLEAN : CacheSetReturn(r, ok, "ok"))

\* The service serving one question about one company, entries not
\* expiring meanwhile.
NextLive ==
    \/ Startup
    \/ \E r \in Req, k \in QueryKeys :
          Arrive(r, Apple, <<"R","e","v","?">>, k)
    \/ \E r \in Req : Handle(r)
    \/ \E r \in Req, ok \in BOOLEAN : ConnectReturn(r, ok)
    \/ \E r \in Req, ok \in BOOLEAN : CacheGetReturn(r, ok, "ok")
    \/ \E r \in Req, o \in EmbedOutcomes :
          \E score \in [{v.id : v \in Candidates(rq[r].company)} -> ServeScores] :
              EmbedReturn(r, o, score)
    \/ \E r \in Req, ok \in BOOLEAN : GenerateReturn(r, ok, <<"a">>)
    \/ \E r \in Req, ok \in BOOLEAN : CacheSetReturn(r, ok, "ok")
    \/ \E r \in Req, ok \in BOOLEAN : DbsizeReturn(r, ok)
    \/ \E r \in Req : Finish(r)
    \/ started = 0 /\ next_id = 0 /\ \E doc \in FullDocuments :
          doc.company = Apple /\ IngestStart(doc)
    \/ IngestEmbedReturn("ok")

\* The service of NextLive with every external call returning in the end.
SpecLive == Init /\ [][NextLive]_vars /\ ExternalCallsReturn

\* get_cache_key on its own, on free-text companies and questions.
NextKey ==
    \E c \in KeyCompanies, q \in SeparatorQuestions : CacheKeyCall(c, q)

SpecKey == Init /\ [][NextKey]_vars
(***************************************************************************)
(* Claims about the rate limiter, checked under SpecRL.                    *)
(***************************************************************************)

\* No admitted call before call i of the log is still inside the window at
\* the time of call i: call i finds an empty window.
EmptyBefore(L, i) ==
    \A j \in 1..(i - 1) : L[j].ok => L[i].t - L[j].t >= WindowTicks

\* C2: starting from an empty window, of the calls made for one key within
\* one window_seconds interval the first max_requests are admitted and the
\* (max_requests+1)-th is denied.
C2_FirstMAdmittedNextDenied ==
    \A k \in ApiKeys :
        LET L == calls[k] IN
        \A i \in 1..Len(L) :
            EmptyBefore(L, i) =>
                \A j \in i..Len(L) :
                    L[j].t - L[i].t < WindowTicks =>
                        /\ (j - i < max_requests => L[j].ok)
                        /\ (j - i = max_requests => ~L[j].ok)

\* C2 witness: max_requests+1 calls for one key at instants of one window,
\* the last one denied.
C2_Witness ==
    \E k \in ApiKeys :
        LET L == calls[k] IN
        /\ Len(L) = max_requests + 1
        /\ max_requests = MaxLimit
        /\ L[Len(L)].t - L[1].t < WindowTicks
        /\ L[Len(L)].t > L[1].t
        /\ \A j \in 1..max_requests : L[j].ok
        /\ ~L[Len(L)].ok

\* C9: a check_rate_limit call made window_seconds or more after the
\* previous check_rate_limit call for the same key is admitted, whatever
\* came before, and the key has its whole budget again: that call and the
\* calls following it within one window, max_requests in all, are admitted,
\* and right after it the window holds that one timestamp.
C9_WindowResets ==
    \A k \in ApiKeys :
        LET L == calls[k] IN
        \A j \in 2..Len(L) :
            L[j].t - L[j - 1].t >= WindowTicks =>
                /\ L[j].ok
                /\ \A n \in j..Len(L) :
                       (L[n].t - L[j].t < WindowTicks /\ n - j < max_requests)
                           => L[n].ok
                /\ (j = Len(L) =>
                       Len(Prune(StoredWindow(requests, k), now)) <= 1)

\* C9 witness: a key used up to a denial, then left alone for a window, is
\* admitted again.
C9_Witness ==
    \E k \in ApiKeys :
        LET L == calls[k] IN
        /\ Len(L) = 3
        /\ L[1].ok /\ ~L[2].ok
        /\ L[3].t - L[2].t >= WindowTicks
        /\ L[3].ok
        /\ requests[k] = <<L[3].t>>

\* C10: the stored window of every key holds at most max_requests
\* timestamps.
C10_WindowBounded ==
    \A k \in DOMAIN requests : Len(requests[k]) <= max_requests

\* C10 witness: a full window, after a denied call, a status call and an
\* advance of the clock.
C10_Witness ==
    \E k \in DOMAIN requests :
        /\ Len(requests[k]) = max_requests
        /\ max_requests = MaxLimit
        /\ \E i \in 1..Len(calls[k]) : ~calls[k][i].ok
        /\ last_status # NoStatus
        /\ now > 0


(***************************************************************************)
(* Claims about the query pipeline, checked under Spec.                    *)
(***************************************************************************)

\* process_query of request r has returned.
HasReturned(r) == rq[r].source # "none"

\* The index returned matches to request r, every one below the floor.
OnlyLowScores(r) ==
    /\ rq[r].matches # << >>
    /\ \A i \in 1..Len(rq[r].matches) : rq[r].matches[i].score < ScoreFloor

\* C1: a query all of whose matches score below 0.70 makes no generation
\* call and no cache write, and returns the fixed insufficient-information
\* answer.
C1_LowScoresShortCircuit ==
    \A r \in Req :
        OnlyLowScores(r) =>
            /\ rq[r].gen_calls = 0
            /\ rq[r].set_calls = 0
            /\ HasReturned(r) =>
                  rq[r].answer = InsufficientAnswer(rq[r].company)

\* The admitted calls of the log L up to call i whose timestamps are inside
\* the window that ends at call i.
AdmittedInWindow(L, i) ==
    {j \in 1..i : L[j].ok /\ Live(L[j].t, L[i].t)}

\* C3: whatever the interleaving of the requests in flight, no window of a
\* key holds more than max_requests admitted calls, and two requests that
\* each found exactly one slot left for the same key are never both
\* admitted.
C3_ConcurrentAdmitsBounded ==
    /\ \A k \in ApiKeys : \A i \in 1..Len(calls[k]) :
          Cardinality(AdmittedInWindow(calls[k], i)) <= max_requests
    /\ \A r1, r2 \in Req :
          (/\ r1 # r2
           /\ rq[r1].api_key = rq[r2].api_key
           /\ rq[r1].slots_before = 1 /\ rq[r2].slots_before = 1)
             => ~(rq[r1].admitted /\ rq[r2].admitted)

\* C3 witness: two requests for one key were in flight with one slot left;
\* the first one handled was admitted and the other denied.
C3_Witness ==
    \E r1, r2 \in Req :
        /\ r1 # r2
        /\ rq[r1].api_key = rq[r2].api_key
        /\ rq[r1].contended /\ rq[r1].slots_before = 1 /\ rq[r1].admitted
        /\ rq[r2].slots_before = 0 /\ rq[r2].resp = "429"

\* C4: the gauge equals the number of process_query calls in flight (so it
\* is never negative), and it is 0 whenever no call is in flight.
C4_GaugeCountsInFlight ==
    /\ concurrent_requests = Cardinality({r \in Req : rq[r].pc \in InPipeline})
    /\ concurrent_requests >= 0
    /\ (\A r \in Req : rq[r].pc \notin InPipeline) => concurrent_requests = 0

\* C4 witness: a burst of concurrent queries has completed, one through the
\* except branch and one with a cached or generated answer, and the gauge
\* is back at 0.
C4_Witness ==
    /\ concurrent_requests = 0
    /\ \A r \in Req : rq[r].pc = "done" /\ rq[r].admitted
    /\ \E r \in Req : rq[r].overlapped
    /\ \E r \in Req : rq[r].source = "error"
    /\ \E r \in Req : rq[r].source \in {"cache", "generated"}

\* C6: a cache lookup that finds the backend unavailable (connect or get
\* fails) is a miss: the request goes on to the embedding call and does not
\* end in the error result because of the cache.
C6_CacheUnavailableIsMiss ==
    \A r \in Req :
        rq[r].got \in {"connect_failed", "get_failed"} =>
            /\ rq[r].embed_calls = 1
            /\ rq[r].raised # "cache_connect"

\* the failures of the embedding call and of the generation call
ProviderFailures == {"embedding", "openai_connect", "generation"}

\* C7: when the embedding call or the generation call fails, process_query
\* returns (it does not raise) the error result with its message, and the
\* request has made no cache write.
C7_ProviderErrorIsResult ==
    \A r \in Req :
        rq[r].raised \in ProviderFailures =>
            /\ rq[r].pc \in {"dbsize", "done"}
            /\ rq[r].source = "error"
            /\ rq[r].answer = ErrorAnswer
            /\ rq[r].set_calls = 0 /\ ~rq[r].wrote

\* C7 witness: one request whose embedding call failed and one whose
\* generation call failed have both been answered.
C7_Witness ==
    /\ \E r \in Req : /\ rq[r].raised = "embedding"
                      /\ rq[r].pc = "done" /\ rq[r].resp = "200"
    /\ \E r \in Req : /\ rq[r].raised = "generation"
                      /\ rq[r].pc = "done" /\ rq[r].resp = "200"

\* C8: a query that arrives after a query for the same key has completed
\* with a cache write, and looks the key up while the written entry is
\* still there, is answered from the cache, with no embedding call and no
\* generation call.
C8_RepeatServedFromCache ==
    \A r \in Req :
        (rq[r].cached_on_entry /\ rq[r].got \in {"hit", "empty_value"}) =>
            /\ rq[r].embed_calls = 0
            /\ rq[r].gen_calls = 0
            /\ HasReturned(r) => rq[r].source = "cache"

(***************************************************************************)
(* Claims about retrieval, checked under SpecIngest.                       *)
(***************************************************************************)

\* C5: every match the index returns for a company is a document that was
\* ingested with exactly that company.
C5_MatchesOfQueriedCompany ==
    \A i \in 1..Len(last_query.matches) :
        LET m == last_query.matches[i] IN
        /\ m.id \in DOMAIN ingested
        /\ ingested[m.id] = last_query.company
        /\ m.metadata.company = last_query.company

\* C5 witness: with a Tesla document and an Apple document in the index, a
\* query for Apple has returned the Apple document alone.
C5_Witness ==
    /\ \E v \in vectors : v.metadata.company = Tesla
    /\ last_query.company = Apple
    /\ Len(last_query.matches) = 1
    /\ \E v \in vectors : v.id = last_query.matches[1].id

(***************************************************************************)
(* Claims about the cache key and the freshness classification (SpecFn).   *)
(***************************************************************************)
\* Two characters equal up to letter case.
CaseEq(a, b) ==
    a = b \/ \E i \in 1..Len(UpperCase) : {a, b} = {UpperCase[i], LowerCase[i]}

\* The part of str between its leading and trailing whitespace.
Trimmed(str) ==
    LET inner == {i \in 1..Len(str) : str[i] \notin Whitespace}
    IN  IF inner = {} THEN << >>
        ELSE SubSeq(str, CHOOSE i \in inner : \A j \in inner : i <= j,
                         CHOOSE i \in inner : \A j \in inner : i >= j)

\* Two questions equal after lower-casing and trimming.
SameNormalized(q1, q2) ==
    LET t1 == Trimmed(q1)
        t2 == Trimmed(q2)
    IN  Len(t1) = Len(t2) /\ \A i \in 1..Len(t1) : CaseEq(t1[i], t2[i])

\* C11: get_cache_key gives the same key for the same company and two
\* questions equal after lower-casing and trimming (and so the same key
\* whenever it is called again on the same input), and different keys for
\* two different companies and the same question text.
C11_KeyIgnoresCaseAndMargins ==
    \A i, j \in 1..Len(probe.keys) :
        LET a == probe.keys[i]
            b == probe.keys[j]
        IN  /\ (a.company = b.company /\ SameNormalized(a.question, b.question))
                  => a.key = b.key
            /\ (a.company # b.company /\ a.question = b.question)
                  => a.key # b.key

\* the key of ("Apple", " rev? ") was computed after that of ("Apple", "Rev?")
C11_Witness ==
    /\ Len(probe.keys) = 2
    /\ probe.keys[1].company = probe.keys[2].company
    /\ probe.keys[1].question # probe.keys[2].question
    /\ SameNormalized(probe.keys[1].question, probe.keys[2].question)
    /\ probe.keys[1].key = probe.keys[2].key

\* The question contains a temporal marker, in any letter case.
HasMarker(question) ==
    \E m \in 1..Len(real_time_indicators) :
        LET marker == real_time_indicators[m]
        IN  \E at \in 0..(Len(question) - Len(marker)) :
                \A j \in 1..Len(marker) : CaseEq(question[at + j], marker[j])

\* C12: the TTL selected for the cache write of a generated answer is the
\* short (real-time) one iff the question contains a temporal marker in any
\* letter case, and the long (historical) one iff it contains none.
C12_TtlFollowsMarker ==
    probe.ttl # NoTtl =>
        /\ CACHE_TTL_REALTIME < CACHE_TTL_HISTORICAL
        /\ probe.ttl.ttl = CACHE_TTL_REALTIME <=> HasMarker(probe.ttl.question)
        /\ probe.ttl.ttl = CACHE_TTL_HISTORICAL <=> ~HasMarker(probe.ttl.question)

\* "Current rev?" was given the short TTL (the marker is not in lower case)
C12_Witness ==
    /\ probe.ttl # NoTtl
    /\ HasMarker(probe.ttl.question)
    /\ ~is_real_time_query_cased(probe.ttl.question)
    /\ probe.ttl.ttl = CACHE_TTL_REALTIME

\* " rev?", which is "current rev?" without its marker, was given the long TTL
C12_WitnessRemoved ==
    /\ probe.ttl.question = <<" ","r","e","v","?">>
    /\ probe.ttl.ttl = CACHE_TTL_HISTORICAL

(***************************************************************************)
(* Claims about ingestion (SpecIngest).                                    *)
(***************************************************************************)
\* A document with a required field missing or empty.
InvalidDocument(doc) ==
    \E f \in {"company", "report_type", "report_date", "content"} :
        f \notin DOMAIN doc \/ doc[f] = << >>

\* C13: process_document on a document whose company, report_type,
\* report_date or content is missing or empty returns a rejection and has
\* made no embedding call, no vector-index upsert and no audit-store write;
\* no vector of the index comes from such a document.
C13_InvalidDocumentRejected ==
    /\ (ingest.doc # << >> /\ InvalidDocument(ingest.doc)) =>
          /\ ingest.pc = "idle" /\ ingest.result = "rejected"
          /\ ingest.embed_calls = 0 /\ ingest.upserts = 0
          /\ ingest.db_writes = 0
    /\ \A v \in vectors :
          /\ v.metadata.company # << >> /\ v.metadata.report_type # << >>
          /\ v.metadata.report_date # << >> /\ v.metadata.content # << >>

\* a document with an empty report_date was rejected while the index
\* already held a vector
C13_Witness ==
    /\ ingest.doc # << >>
    /\ "report_date" \in DOMAIN ingest.doc
    /\ ingest.doc.report_date = << >>
    /\ ingest.result = "rejected"
    /\ vectors # {}

\* a document without the content field was rejected
C13_WitnessMissing ==
    /\ ingest.doc # << >>
    /\ "content" \notin DOMAIN ingest.doc
    /\ ingest.result = "rejected"

(***************************************************************************)
(* Claims about the recording of metrics (SpecTel, Spec, SpecRL).          *)
(***************************************************************************)
\* C14: a failure while recording telemetry for a query (record_query of
\* the metrics manager, or the audit-log write of the query metrics) does
\* not change the response: the caller receives the cached or generated
\* answer with its normal source.
C14_TelemetryFailureHarmless ==
    \A r \in Req :
        rq[r].tel \in {"record_failed", "audit_failed"} =>
            /\ rq[r].source \in {"cache", "generated"}
            /\ rq[r].answer # ErrorAnswer
            /\ rq[r].raised = "none"

\* C14, the audit-log half alone: a failure of the database write of
\* _record_query_metrics does not change the response.
C14_AuditFailureHarmless ==
    \A r \in Req :
        rq[r].tel = "audit_failed" =>
            /\ rq[r].source \in {"cache", "generated"}
            /\ rq[r].answer # ErrorAnswer
            /\ rq[r].raised = "none"

\* C15: the sample of the backend size is off the critical path: a request
\* whose process_query has returned a result is answered with it (200),
\* whatever becomes of the sample.
C15_SampleOffCriticalPath ==
    \A r \in Req :
        (HasReturned(r) /\ rq[r].pc = "done") => rq[r].resp = "200"

\* C16: every result process_query returns (cache hit, insufficient
\* information, generated, error) is recorded by the metrics manager exactly
\* once: the step in which a result is returned adds one to total_queries,
\* and cache_hits + cache_misses = total_queries throughout.
C16_EveryResultRecordedOnce ==
    /\ [](counters.cache_hits + counters.cache_misses = counters.total_queries)
    /\ [][\A r \in Req :
            (rq[r].source = "none" /\ rq'[r].source # "none") =>
                counters'.total_queries = counters.total_queries + 1]_vars

\* C17: get_remaining_requests is read-only: a call leaves the stored
\* windows and the set of known keys as they were.
C17_RemainingReadOnly ==
    [][\A k \in ApiKeys : get_remaining_requests(k) => requests' = requests]_vars

\* C18: when the cache write after a successful generation fails, the query
\* still returns the generated answer with source = generated, and no
\* exception leaves process_query.
C18_SetFailureNonFatal ==
    \A r \in Req :
        (rq[r].set_calls = 1 /\ HasReturned(r) /\ ~rq[r].wrote) =>
            /\ rq[r].source = "generated"
            /\ rq[r].answer # ErrorAnswer
            /\ rq[r].raised = "none"

\* C18 witness: a request whose cache write failed has been answered with
\* the generated text, and nothing was written to the backend.
C18_Witness ==
    \E r \in Req :
        /\ rq[r].set_calls = 1 /\ ~rq[r].wrote
        /\ rq[r].pc = "done" /\ rq[r].resp = "200"
        /\ rq[r].source = "generated" /\ rq[r].answer = <<"a">>
        /\ get_cache_key(rq[r].company, rq[r].question) \notin DOMAIN store

(***************************************************************************)
(* Claims about the calls to the provider (SpecPace).                      *)
(***************************************************************************)
\* C19: every external call is a non-blocking suspension point: while one
\* coroutine waits on an external call or on the pacing delay, any other
\* coroutine whose awaited call is over can be resumed.
C19_ExternalWaitsDoNotStall ==
    \A c, o \in Co :
        (/\ c # o
         /\ co[c].pc \in {"sleeping", "querying", "awaiting"}
         /\ co[o].pc = "awaiting")
            => ENABLED (\E ok \in BOOLEAN : CallReturn(o, ok))

\* C20: any two consecutive calls issued to the provider, by whichever
\* coroutines, are at least min_request_interval apart.
C20_ProviderCallsSpaced ==
    \A i \in 2..Len(provider_log) :
        provider_log[i].t - provider_log[i - 1].t >= MIN_REQUEST_INTERVAL_MS

\* C20 witness: an ingestion issued its embedding call less than the
\* interval after it was started behind a query's call, exactly the
\* interval after that call; and a generation call followed.
C20_Witness ==
    /\ Len(provider_log) = 3
    /\ provider_log[1].by # provider_log[2].by
    /\ provider_log[2].t - provider_log[1].t = MIN_REQUEST_INTERVAL_MS
    /\ provider_log[3].call = "generation"
    /\ \E c \in Co : co[c].kind = "ingest"

(***************************************************************************)
(* Claims about the outcomes and the stages of a query (Spec).             *)
(***************************************************************************)
\* the cache key of request r
KeyOf(r) == get_cache_key(rq[r].company, rq[r].question)

\* In this step request r completes a cache write that succeeded.
Writes(r) == rq[r].pc = "cache_set" /\ rq'[r].pc # "cache_set" /\ rq'[r].wrote

\* C21: nothing orders two queries for the same key: both can miss, call
\* the provider and write; every successful write replaces the entry with
\* the writer's answer, and an entry changes by a write only, so that the
\* entry holds the answer of the write that happened last.
C21_LastWriteWins ==
    [][/\ \A r \in Req :
            Writes(r) => /\ KeyOf(r) \in DOMAIN store'
                         /\ store'[KeyOf(r)].value = rq[r].answer
       /\ \A k \in DOMAIN store \cap DOMAIN store' :
            store'[k] # store[k] => \E r \in Req : Writes(r) /\ KeyOf(r) = k
      ]_vars

\* C21 witness: two queries for the same key both found the cache empty,
\* both called the provider, which gave them different answers, and both
\* wrote; the entry holds one of the two answers.
C21_Witness ==
    \E r1, r2 \in Req :
        /\ r1 # r2 /\ KeyOf(r1) = KeyOf(r2)
        /\ rq[r1].got = "absent" /\ rq[r2].got = "absent"
        /\ rq[r1].gen_calls = 1 /\ rq[r2].gen_calls = 1
        /\ rq[r1].wrote /\ rq[r2].wrote
        /\ rq[r1].answer # rq[r2].answer
        /\ rq[r1].pc = "done" /\ rq[r2].pc = "done"
        /\ KeyOf(r1) \in DOMAIN store
        /\ store[KeyOf(r1)].value \in {rq[r1].answer, rq[r2].answer}

\* C22: a query over its rate limit is denied (429) before process_query:
\* it makes no cache lookup, no embedding, retrieval or generation call and
\* no cache write, and the denial changes neither the concurrency gauge nor
\* the query counters nor the cache.
C22_DeniedDoesNothing ==
    /\ [](\A r \in Req :
            rq[r].resp = "429" =>
                /\ rq[r].pc = "done" /\ ~rq[r].admitted
                /\ rq[r].got = "none" /\ rq[r].matches = << >>
                /\ rq[r].embed_calls = 0 /\ rq[r].gen_calls = 0
                /\ rq[r].set_calls = 0 /\ ~rq[r].wrote
                /\ rq[r].source = "none")
    /\ [][\A r \in Req :
            (rq[r].resp # "429" /\ rq'[r].resp = "429") =>
                UNCHANGED <<concurrent_requests, counters, cache_stats,
                            store>>]_vars

\* C22 witness: a query was denied while another query of the same key was
\* inside process_query.
C22_Witness ==
    \E r, o \in Req :
        /\ rq[r].resp = "429" /\ rq[r].slots_before = 0
        /\ rq[o].api_key = rq[r].api_key /\ rq[o].pc \in InPipeline
        /\ concurrent_requests = 1

\* C23: within one process_query call the embedding provider is called at
\* most once and the generation provider at most once; after a failed
\* provider call the request is over, with no further provider call.
C23_NoProviderRetry ==
    \A r \in Req :
        /\ rq[r].embed_calls <= 1 /\ rq[r].gen_calls <= 1
        /\ rq[r].raised \in ProviderFailures =>
              /\ rq[r].pc \in {"dbsize", "done"}
              /\ rq[r].source = "error"
        /\ rq[r].raised \in {"embedding", "openai_connect"} =>
              rq[r].gen_calls = 0

\* C23 witness: a request whose generation call failed is over after one
\* embedding call and one generation call.
C23_Witness ==
    \E r \in Req :
        /\ rq[r].raised = "generation" /\ rq[r].pc = "done"
        /\ rq[r].embed_calls = 1 /\ rq[r].gen_calls = 1
        /\ rq[r].source = "error"

\* C25: the source of a result identifies its outcome: cache for a cache
\* hit, generated for an answer produced by a generation call of the
\* request, error for a failure, and a value of its own for the
\* insufficient-information short-circuit.
C25_SourceIdentifiesOutcome ==
    \A r \in Req :
        HasReturned(r) =>
            /\ rq[r].source = "cache" <=> rq[r].got = "hit"
            /\ rq[r].source = "generated" <=>
                  (rq[r].gen_calls = 1 /\ rq[r].raised = "none")
            /\ rq[r].source = "error" <=> rq[r].raised # "none"

\* C27: the stages of a request happen in the order cache lookup, embed,
\* vector search, build context, generate, classify, cache write, record
\* metrics, return: a stage has started only if the one before it is over,
\* a cache hit starts no later stage, and a cache write follows a
\* successful generation call of the same request.
C27_StagesInOrder ==
    \A r \in Req :
        /\ rq[r].pc \in {"connect", "cache_get"} =>
              /\ rq[r].got = "none" /\ rq[r].embed_calls = 0
              /\ rq[r].gen_calls = 0 /\ rq[r].set_calls = 0
        /\ rq[r].embed_calls >= 1 =>
              rq[r].got \in {"absent", "empty_value", "get_failed"}
        /\ rq[r].pc = "embed" =>
              /\ rq[r].matches = << >> /\ rq[r].gen_calls = 0
              /\ rq[r].set_calls = 0
        /\ rq[r].matches # << >> => rq[r].embed_calls = 1 /\ rq[r].pc # "embed"
        /\ rq[r].gen_calls >= 1 =>
              /\ rq[r].matches # << >> /\ rq[r].raised # "embedding"
        /\ rq[r].pc = "generate" => rq[r].set_calls = 0 /\ rq[r].tel = "none"
        /\ rq[r].set_calls >= 1 =>
              /\ rq[r].gen_calls = 1 /\ rq[r].pc # "generate"
              /\ rq[r].raised \notin ProviderFailures
        /\ rq[r].wrote => rq[r].set_calls = 1
        /\ rq[r].tel # "none" =>
              /\ HasReturned(r)
              /\ rq[r].got = "hit" \/ (rq[r].set_calls = 1 /\ rq[r].pc # "cache_set")
        /\ rq[r].got = "hit" =>
              /\ HasReturned(r)
              /\ rq[r].embed_calls = 0 /\ rq[r].gen_calls = 0
              /\ rq[r].set_calls = 0 /\ rq[r].matches = << >>
        /\ HasReturned(r) => rq[r].pc \in {"dbsize", "done"}

\* C27 witness: a request went through every stage, from a miss to the
\* cache write and the recording, and was answered.
C27_Witness ==
    \E r \in Req :
        /\ rq[r].got = "absent" /\ rq[r].embed_calls = 1
        /\ rq[r].matches # << >> /\ rq[r].gen_calls = 1
        /\ rq[r].set_calls = 1 /\ rq[r].wrote /\ rq[r].tel = "ok"
        /\ rq[r].source = "generated" /\ rq[r].resp = "200"

(***************************************************************************)
(* Claims about batch ingestion (SpecBatch).                               *)
(***************************************************************************)
\* C24: batch_process_documents attempts every document, in list order,
\* whatever becomes of the others, and undoes nothing: the outcome at
\* position i is that of document i, a document that succeeded stays in the
\* index, and the statistics satisfy successful + failed = total_documents,
\* successful being the number of documents whose ingestion succeeded.
C24_BatchCountsEveryDocument ==
    /\ Len(batch.results) <= Len(batch.docs)
    /\ Len(batch.outcomes) = Len(batch.results)
    /\ \A i \in 1..Len(batch.outcomes) :
          /\ batch.outcomes[i] = "rejected" <=> InvalidDocument(batch.docs[i])
          /\ batch.results[i] <=> batch.outcomes[i] = "ok"
          /\ batch.outcomes[i] = "ok" =>
                \E v \in vectors :
                    /\ v.id = batch.ids[i]
                    /\ v.metadata.company = batch.docs[i].company
          /\ \A j \in 1..(i - 1) :
                (batch.ids[i] # 0 /\ batch.ids[j] # 0) =>
                    batch.ids[j] < batch.ids[i]
    /\ batch.pc = "done" =>
          /\ Len(batch.results) = Len(batch.docs)
          /\ batch.report.total_documents = Len(batch.docs)
          /\ batch.report.successful + batch.report.failed
                = batch.report.total_documents
          /\ batch.report.successful
                = Cardinality({i \in 1..Len(batch.docs) :
                                  batch.outcomes[i] = "ok"})

\* C24 witness: a batch of three documents is over: the first failed at the
\* embedding call, the second was rejected, the third succeeded.
C24_Witness ==
    /\ batch.pc = "done" /\ Len(batch.docs) = 3
    /\ batch.outcomes = <<"embed_failed", "rejected", "ok">>
    /\ batch.report = [total_documents |-> 3, successful |-> 1, failed |-> 2]

(***************************************************************************)
(* Claims about the metrics snapshot (SpecMetrics) and the context         *)
(* (SpecCtx).                                                              *)
(***************************************************************************)
\* C26: in the snapshot get_metrics returns, query_count is the number of
\* queries recorded when the snapshot was taken and average_latency is the
\* total latency recorded for them divided by their number (latencies are
\* in ticks, the snapshot's in seconds).
C26_SnapshotAverageLatency ==
    (snapshot.pc = "returned" /\ snapshot.recorded > 0) =>
        /\ snapshot.query_count = snapshot.recorded
        /\ snapshot.average_latency.num * TicksPerSecond * snapshot.recorded
              = snapshot.latency_total * snapshot.average_latency.den

\* The matches of ms that the claim keeps: those with a score, of at least
\* 0.70.
C28_Kept(ms) ==
    SelectSeq(ms, LAMBDA m : "score" \in DOMAIN m /\ m.score >= 70)

\* C28: _build_context returns one labeled block per match with score >=
\* 0.70, in the order of the input, joined by blank lines, and no block for
\* a match with a lower score or with no score; a match with score exactly
\* 0.70 is included.
C28_ContextIsEligibleBlocks ==
    LET kept == C28_Kept(context.matches)
    IN  /\ Len(context.parts) = Len(kept)
        /\ \A i \in 1..Len(kept) :
              context.parts[i] = doc_context(Get(kept[i], "metadata", << >>))
        /\ context.text = Join(context.parts, <<"\n\n">>)
        /\ Len(context.text)
              = IF kept = << >> THEN 0
                ELSE Len(kept) - 1
                     + Cardinality({i \in 1..Len(context.text) :
                                       context.text[i] \notin {"\n\n"}})
        /\ Cardinality({i \in 1..Len(context.text) :
                           context.text[i] = "):\n"}) = Len(kept)

\* C28 witness: of three matches, the one at exactly 0.70 and the one at
\* 0.90 are in the context, in this order, and the one with no score is not.
C28_Witness ==
    /\ Len(context.matches) = 3
    /\ context.matches[1].id = 2 /\ context.matches[2].id = 4
    /\ context.matches[3].id = 3
    /\ Len(context.parts) = 2
    /\ context.parts[1][1] = Apple[1] /\ context.parts[2][1] = Tesla[1]

(***************************************************************************)
(* Claims about denied rate-limit checks (SpecRL).                         *)
(***************************************************************************)
\* C29: a denied check_rate_limit call appends no timestamp: it leaves the
\* key's list as it was apart from the expired entries it prunes, and
\* leaves the other keys alone.  So whatever denied attempts were made, a
\* key whose window is full is admitted again from the instant
\* window_seconds after the oldest timestamp still in its window, and not
\* before.
C29_DenialDoesNotPostpone ==
    /\ [](\A k \in DOMAIN requests :
             LET live == SelectSeq(requests[k],
                                   LAMBDA t : t > now - WindowTicks)
             IN  Len(live) >= max_requests =>
                     \A t \in now..(now + WindowTicks + 1) :
                         CheckResult(requests, k, t)
                             <=> t >= MinOf(live) + WindowTicks)
    /\ [][\A k \in ApiKeys :
             (/\ Len(calls'[k]) = Len(calls[k]) + 1
              /\ ~calls'[k][Len(calls'[k])].ok)
                 => /\ k \in DOMAIN requests
                    /\ requests'[k]
                          = SelectSeq(requests[k],
                                      LAMBDA t : t > now - WindowTicks)
                    /\ \A j \in DOMAIN requests \ {k} :
                          requests'[j] = requests[j]
                    /\ DOMAIN requests' = DOMAIN requests]_vars

\* C29 witness: a key admitted once, denied at a later instant inside
\* the window, and admitted again exactly one window after the admitted
\* call.
C29_Witness ==
    \E k \in ApiKeys :
        LET L == calls[k] IN
        /\ max_requests = 1
        /\ Len(L) >= 3
        /\ L[1].ok /\ ~L[2].ok /\ L[2].t > L[1].t
        /\ L[Len(L)].ok
        /\ L[Len(L)].t = L[1].t + WindowTicks
        /\ \A j \in 2..(Len(L) - 1) : ~L[j].ok

(***************************************************************************)
(* Claims about termination (SpecLive).                                    *)
(***************************************************************************)
\* The outcomes of a returned process_query call that apply to r.
C30_Outcomes(r) ==
    {o \in {"hit", "insufficient", "generated", "error"} :
        \/ o = "hit" /\ rq[r].source = "cache" /\ rq[r].got = "hit"
        \/ o = "insufficient" /\ rq[r].source = "generated"
              /\ rq[r].gen_calls = 0 /\ rq[r].matches = << >>
        \/ o = "generated" /\ rq[r].source = "generated"
              /\ rq[r].gen_calls = 1 /\ rq[r].raised = "none"
        \/ o = "error" /\ rq[r].source = "error" /\ rq[r].raised # "none"}

\* C30: when every external call returns or fails in the end, a
\* process_query call that has started leaves its intermediate stages and
\* returns; what it has returned is one result, with exactly one of the
\* outcomes cache hit, insufficient information, generated and error, and
\* it is not replaced afterwards.
C30_EveryQueryReturns ==
    /\ \A r \in Req :
          (rq[r].pc \in InPipeline) ~> (rq[r].pc \in {"dbsize", "done"})
    /\ [](\A r \in Req :
             /\ rq[r].pc \in InPipeline => rq[r].source = "none"
             /\ (rq[r].pc \in {"dbsize", "done"} /\ rq[r].admitted) =>
                    Cardinality(C30_Outcomes(r)) = 1)
    /\ [][\A r \in Req :
             (rq[r].source # "none" /\ rq'[r].pc # "idle") =>
                 /\ rq'[r].source = rq[r].source
                 /\ rq'[r].answer = rq[r].answer]_vars

\* C30 witness: both requests have returned, one with an error after its
\* embedding call failed and one with a generated answer.
C30_Witness ==
    /\ \A r \in Req : rq[r].pc \in {"dbsize", "done"} /\ rq[r].admitted
    /\ \E r \in Req : C30_Outcomes(r) = {"error"} /\ rq[r].embed_calls = 1
    /\ \E r \in Req : C30_Outcomes(r) = {"generated"}

(***************************************************************************)
(* Claims about the partition by key and the remaining count (SpecRL).     *)
(***************************************************************************)
\* C31: the rate-limit state is partitioned by key: a check_rate_limit or
\* get_remaining_requests call for a key a leaves every other key b as it
\* was: known or not, with the same stored list, and with the same answers
\* of check_rate_limit and get_remaining_requests at every later instant.
C31_KeysArePartitioned ==
    [][\A a \in ApiKeys :
          (check_rate_limit(a) \/ get_remaining_requests(a)) =>
              \A b \in ApiKeys \ {a} :
                  /\ (b \in DOMAIN requests') <=> (b \in DOMAIN requests)
                  /\ StoredWindow(requests', b) = StoredWindow(requests, b)
                  /\ \A t \in now..(now + WindowTicks + 1) :
                        /\ CheckResult(requests', b, t)
                              = CheckResult(requests, b, t)
                        /\ RemainingResult(requests', b, t)
                              = RemainingResult(requests, b, t)]_vars

\* C31 witness: with a budget of one call, a key has been admitted and then
\* denied, and another key, calling later inside that window, is admitted.
C31_Witness ==
    \E a \in ApiKeys : \E b \in ApiKeys \ {a} :
        /\ max_requests = 1
        /\ Len(calls[a]) = 2 /\ calls[a][1].ok /\ ~calls[a][2].ok
        /\ Len(calls[b]) = 1 /\ calls[b][1].ok
        /\ calls[b][1].t > calls[a][2].t
        /\ calls[b][1].t - calls[a][1].t < WindowTicks
        /\ requests[a] = <<calls[a][1].t>>
        /\ requests[b] = <<calls[b][1].t>>

\* The admitted calls of k whose timestamps lie in the trailing window at
\* current_time.
C32_AdmittedInWindow(k, current_time) ==
    Cardinality({j \in 1..Len(calls[k]) :
                    /\ calls[k][j].ok
                    /\ calls[k][j].t > current_time - WindowTicks})

\* C32: at any instant get_remaining_requests(key) reports remaining =
\* max_requests minus the number of admitted calls of the key in the
\* trailing window; a check_rate_limit(key) at that instant is admitted iff
\* that count is > 0, and after an admitted call the count is one lower.
C32_RemainingMatchesAdmission ==
    /\ [](\A k \in ApiKeys :
             LET remaining == RemainingResult(requests, k, now).remaining
             IN  /\ remaining = max_requests - C32_AdmittedInWindow(k, now)
                 /\ CheckResult(requests, k, now) <=> remaining > 0
                 /\ CheckResult(requests, k, now) =>
                       RemainingResult(RequestsAfterCheck(requests, k, now),
                                       k, now).remaining = remaining - 1)
    /\ [][\A k \in ApiKeys :
             /\ get_remaining_requests(k) =>
                   last_status'.remaining
                       = max_requests - C32_AdmittedInWindow(k, now)
             /\ check_rate_limit(k) =>
                   (calls'[k][Len(calls'[k])].ok
                       <=> C32_AdmittedInWindow(k, now) < max_requests)]_vars

\* C32 witness: with a budget of two, the only key used has one expired
\* and one live admitted call, and get_remaining_requests has reported 1.
C32_Witness ==
    \E k \in ApiKeys :
        /\ max_requests = 2
        /\ \A j \in ApiKeys \ {k} : calls[j] = << >>
        /\ Len(calls[k]) = 2 /\ calls[k][1].ok /\ calls[k][2].ok
        /\ calls[k][1].t <= now - WindowTicks
        /\ calls[k][2].t > now - WindowTicks
        /\ last_status.remaining = 1
        /\ requests[k] = <<calls[k][2].t>>

\* C38: for a key with no timestamp in the current window,
\* get_remaining_requests returns the same (remaining, reset_seconds)
\* whether the key was never seen or all its timestamps have expired; when
\* a timestamp survives, reset_seconds is window_seconds minus the age of
\* the oldest one, truncated to an integer of [0, window_seconds].
C38_NeverSeenSameAsExpired ==
    \A k \in ApiKeys :
        LET live == SelectSeq(StoredWindow(requests, k),
                              LAMBDA t : t > now - WindowTicks)
            result == RemainingResult(requests, k, now)
        IN  /\ live = << >> =>
                  result = RemainingResult(<< >>, k, now)
            /\ live # << >> =>
                  /\ result.reset_seconds
                        = (WindowTicks - (now - MinOf(live)))
                              \div TicksPerSecond
                  /\ result.reset_seconds \in 0..window_seconds

(***************************************************************************)
(* Claims about the separation of cache keys (SpecKey).                    *)
(***************************************************************************)
\* C33: get_cache_key is injective on (company, normalized question): two
\* calls whose companies differ, or whose questions differ after
\* lower-casing and trimming, get different keys.
C33_KeyInjective ==
    \A i, j \in 1..Len(probe.keys) :
        LET a == probe.keys[i]
            b == probe.keys[j]
        IN  (a.company # b.company \/ ~SameNormalized(a.question, b.question))
                => a.key # b.key

(***************************************************************************)
(* Claims about the result of an ingestion (SpecIngest).                   *)
(***************************************************************************)
\* C34: process_document is all-or-nothing with respect to the result it
\* reports: when it returns success the document was upserted into the
\* index and written to the database, and when it returns a failure, for
\* any reason, the index holds no vector of that document.
C34_IngestAllOrNothing ==
    ingest.pc = "idle" =>
        /\ ingest.result = "success" =>
              /\ ingest.upserts = 1 /\ ingest.db_writes = 1
              /\ \E v \in vectors : v.id = ingest.doc_id
        /\ ingest.result \in {"error", "rejected"} =>
              ~\E v \in vectors : v.id = ingest.doc_id

(***************************************************************************)
(* Claims about the cache contents and retrieval failures (Spec).          *)
(***************************************************************************)
\* C35: cache round trip: while the entry a successful cache.set stored
\* under a key is there (not expired; overwritten or not), a cache.get of
\* that key that the backend serves returns the stored value and counts a
\* hit, whatever the value, the empty answer included, and process_query
\* returns it with source = cache.
C35_StoredValueIsAHit ==
    [][\A r \in Req :
          (CacheGetReturn(r, TRUE, "ok") /\ KeyOf(r) \in DOMAIN store) =>
              /\ cache_stats'.cache_hits = cache_stats.cache_hits + 1
              /\ cache_stats'.cache_misses = cache_stats.cache_misses
              /\ rq'[r].got = "hit"
              /\ rq'[r].source = "cache"
              /\ rq'[r].answer = store[KeyOf(r)].value]_vars

\* C36: a failure of the index query is swallowed inside
\* PineconeManager.query and never surfaces as source = error: the request
\* returns the insufficient-information answer, as for an empty retrieval,
\* with no generation call and no cache write, and the step changes
\* nothing in the cache.
C36_QueryFailureIsInsufficient ==
    /\ [](\A r \in Req :
             rq[r].retrieval = "failed" =>
                 /\ rq[r].pc \in {"dbsize", "done"}
                 /\ rq[r].source = "generated"
                 /\ rq[r].answer = InsufficientAnswer(rq[r].company)
                 /\ rq[r].matches = << >>
                 /\ rq[r].raised = "none"
                 /\ rq[r].gen_calls = 0
                 /\ rq[r].set_calls = 0 /\ ~rq[r].wrote)
    /\ [][\A r \in Req :
             (rq[r].retrieval # "failed" /\ rq'[r].retrieval = "failed") =>
                 /\ store' = store
                 /\ cache_stats' = cache_stats]_vars

\* C36 witness: the index query of a request failed after its one
\* embedding call, and the request has returned the insufficient-information
\* answer with nothing cached.
C36_Witness ==
    \E r \in Req :
        /\ rq[r].retrieval = "failed"
        /\ rq[r].source = "generated" /\ rq[r].gen_calls = 0
        /\ rq[r].embed_calls = 1
        /\ rq[r].pc = "done" /\ rq[r].resp = "200"
        /\ store = << >>

\* The fixed answers of process_query: the insufficient-information
\* answers and the error answer.
C37_FixedAnswers ==
    {ErrorAnswer} \cup {InsufficientAnswer(rq[r].company) : r \in Req}
        \cup {InsufficientAnswer(c) : c \in Companies}

\* C37: every value in the cache was put there by a request for that key
\* writing the answer its generation call returned: the cache changes only
\* by the write of a request that is past a successful generation call,
\* the value being that call's text; a request writes only what its
\* generation call returned, and neither the insufficient-information
\* answer nor the error answer is in the cache.
C37_CacheHoldsGeneratedAnswers ==
    /\ [](/\ \A key \in DOMAIN store :
                store[key].value \notin C37_FixedAnswers
          /\ \A r \in Req :
                /\ rq[r].pc = "cache_set" =>
                      /\ rq[r].gen_calls = 1 /\ rq[r].retrieval = "ok"
                      /\ rq[r].raised = "none" /\ rq[r].source = "none"
                      /\ rq[r].answer \notin C37_FixedAnswers
                /\ rq[r].wrote => rq[r].gen_calls = 1)
    /\ [][/\ \A r \in Req :
               (rq[r].pc # "cache_set" /\ rq'[r].pc = "cache_set") =>
                   /\ rq[r].pc = "generate"
                   /\ \E text \in AnswerTexts :
                         GenerateReturn(r, TRUE, text)
                             /\ rq'[r].answer = text
          /\ \A key \in DOMAIN store' :
               (key \notin DOMAIN store \/ store'[key] # store[key]) =>
                   \E r \in Req :
                       /\ rq[r].pc = "cache_set" /\ KeyOf(r) = key
                       /\ store'[key].value = rq[r].answer
                       /\ rq'[r].wrote]_vars

\* C37 witness: of two requests for one key, one has returned the error
\* answer and the other a generated answer, which is what the cache holds.
C37_Witness ==
    \E r1, r2 \in Req :
        /\ r1 # r2 /\ KeyOf(r1) = KeyOf(r2)
        /\ rq[r1].pc = "done" /\ rq[r2].pc = "done"
        /\ rq[r1].source = "error" /\ rq[r1].answer = ErrorAnswer
        /\ rq[r2].source = "generated" /\ rq[r2].wrote
        /\ rq[r2].answer # << >>
        /\ KeyOf(r2) \in DOMAIN store
        /\ store[KeyOf(r2)].value = rq[r2].answer

====
